---- MODULE Spec2Model ----
(***************************************************************************)
(* A model of the muchopper Store (muchopper/bot/state.py), of the        *)
(* MirrorServer that republishes it and the MirrorClient that follows it  *)
(* (muchopper/bot/mirror.py), of the Spokesman search handler             *)
(* (muchopper/bot/spokesman.py), of the address analyser                  *)
(* (muchopper/bot/daemon.py), of the WorkerPool                           *)
(* (muchopper/bot/worker_pool.py) and of the periodic background jobs     *)
(* (muchopper/bot/utils.py, muchopper/bot/scanner.py).                    *)
(*                                                                         *)
(* Encoding of Python values:                                              *)
(*   None            is the empty tuple <<>>                               *)
(*   a value v       is the one-element tuple <<v>> where the column or    *)
(*                   argument may also be None or the UNCHANGED sentinel   *)
(*   UNCHANGED       is the two-element tuple Unchanged                    *)
(*   a str           is a sequence of one-character strings                *)
(*   a float average is an exact rational [n, e] standing for n / 50^e     *)
(*   a datetime      is an integer number of clock ticks; one tick is      *)
(*                   NUSERS_MOVING_AVERAGE_INTERVAL                        *)
(* A table is a function whose DOMAIN is the set of primary keys present.  *)
(* The database enforces the declared foreign keys (model.py:60).          *)
(***************************************************************************)
EXTENDS Bags, FiniteSets, Integers, Sequences, TLC

\* ------------------------------------------------------------------ bounds
MaxTime == 2
MaxUsers == 2
MaxTTL == 1
MaxSignals == 2
MaxQueueSize == 2
RescanDelay == 1
MaxPage == 2
\* workers of a WorkerPool and calls of enqueue / enqueue_nowait
nworkers == 2
MaxItems == 4
\* Scanner.expire_after, 7 days in the program, in clock ticks
expire_after == 1
\* State._address_metadata_cache.maxsize, 512 in the program
cache_maxsize == 2
\* utils.CACHE_TTL_*: 300 s, 3600 s and 86400 s in the program, scaled to
\* clock ticks in the same order
CACHE_TTL_UNREACHABLE == 1
CACHE_TTL_NON_MUC == 3
CACHE_TTL_BANNED == 4
max_name_length == 2
max_description_length == 3
max_subject_length == 2
max_language_length == 1
\* the longest text and the largest soft limit given to process_text
MaxTextLen == 5
MaxSoftLimit == 2
\* runs of a background job that end by themselves
MaxRuns == 4
\* the pipeline: the addresses suggested, the workers of the Scanner, of
\* the analysis pool (16 in the program) and of the Watcher's pool (8), and
\* the size of either queue (128 and 16)
pipeline_items == 3
at_work_items == 3
pipeline_scanner_workers == 1
pipeline_analysis_workers == 2
pipeline_watcher_workers == 1
pipeline_queue_size == 1
\* Scanner.non_muc_rescan_delay, in ticks (6 h in the program)
non_muc_rescan_delay == 2
\* the page size list_items asks for (100 in the program)
page_size == 2
\* the pages of one enumeration the model follows
MaxPages == 3
\* InsideMan.nrooms, 500 in the program
nrooms == 2
\* Room objects the MUCClient makes for one address
MaxJoins == 2

\* --------------------------------------------------------------- constants
MA_INTERVAL == 1
\* "after 24 updates, only 1% of the original value is left"
MA_UPDATES == 24
\* asyncio.sleep(1) between two runs of a background job
RESTART_COOLDOWN == 1
\* insideman.UPDATE_DELAY, in ticks
UPDATE_DELAY == 1
\* queries.prepare_keywords(min_length=3)
KEYWORD_MIN_LENGTH == 3
\* handle_search: "Too many search terms"
MAX_KEYWORDS == 5
WORKER_POOL_SIZE == 4
DEFAULT_MAX == 100
\* InsideMan.minusers
minusers == 2

Domains == {"d1", "d2"}
\* room addresses in ascending string order
AddressOrder == <<"r1@d1", "r2@d2", "r3@d2">>
Addresses == {AddressOrder[i] : i \in 1..Len(AddressOrder)}
StoreAddresses == {"r1@d1"}

JIDDomain(a) == IF a = "r1@d1" THEN "d1" ELSE "d2"

None == <<>>
Some(v) == <<v>>
Unchanged == <<"unchanged", "sentinel">>

Times == 0..MaxTime

\* ---------------------------------------------------------------- helpers
Range(f) == {f[i] : i \in DOMAIN f}
EmptyTable == [k \in {} |-> <<>>]
Max2(a, b) == IF a >= b THEN a ELSE b

\* Natural numbers of any size, for numerators over 50^e: the sequence of
\* the digits to the base Limb, the lowest first, without leading zeros
Limb == 10000

RECURSIVE BigOfInt(_)
BigOfInt(i) == IF i = 0 THEN <<>> ELSE <<i % Limb>> \o BigOfInt(i \div Limb)

\* a * m + carry for a small natural m
RECURSIVE BigTimes(_, _, _)
BigTimes(a, m, carry) ==
    IF m = 0 THEN BigOfInt(carry)
    ELSE IF a = <<>> THEN BigOfInt(carry)
    ELSE LET t == Head(a) * m + carry IN
         <<t % Limb>> \o BigTimes(Tail(a), m, t \div Limb)

BigStrip(a) ==
    LET top == {i \in DOMAIN a : a[i] # 0} IN
    IF top = {} THEN <<>>
    ELSE SubSeq(a, 1, CHOOSE i \in top : \A j \in top : j <= i)

\* a * b^e
RECURSIVE BigTimesPow(_, _, _)
BigTimesPow(a, b, e) ==
    IF e = 0 THEN a ELSE BigTimesPow(BigStrip(BigTimes(a, b, 0)), b, e - 1)

RECURSIVE BigPlus(_, _, _)
BigPlus(a, b, carry) ==
    IF a = <<>> /\ b = <<>> THEN BigOfInt(carry)
    ELSE LET x == IF a = <<>> THEN 0 ELSE Head(a)
             y == IF b = <<>> THEN 0 ELSE Head(b)
             t == x + y + carry
         IN  <<t % Limb>>
             \o BigPlus(IF a = <<>> THEN a ELSE Tail(a),
                        IF b = <<>> THEN b ELSE Tail(b),
                        t \div Limb)

\* a < b
BigLess(a, b) ==
    \/ Len(a) < Len(b)
    \/ /\ Len(a) = Len(b)
       /\ \E i \in DOMAIN a :
              /\ a[i] < b[i]
              /\ \A j \in DOMAIN a : j > i => a[j] = b[j]

\* a - b for a >= b
RECURSIVE BigMinusDigits(_, _, _)
BigMinusDigits(a, b, borrow) ==
    IF a = <<>> THEN <<>>
    ELSE LET y == (IF b = <<>> THEN 0 ELSE Head(b)) + borrow
             under == Head(a) < y
         IN  <<IF under THEN Head(a) + Limb - y ELSE Head(a) - y>>
             \o BigMinusDigits(Tail(a),
                               IF b = <<>> THEN b ELSE Tail(b),
                               IF under THEN 1 ELSE 0)

BigMinus(a, b) == BigStrip(BigMinusDigits(a, b, 0))

\* |a - b|
BigDistance(a, b) == IF BigLess(a, b) THEN BigMinus(b, a) ELSE BigMinus(a, b)

\* a / 50 for a multiple of 50: a * 200 / Limb
BigOver50(a) == Tail(BigTimes(a, 200, 0))

RECURSIVE RatNorm(_)
RatNorm(r) ==
    IF r.e > 0 /\ r.n # <<>> /\ r.n[1] % 50 = 0
    THEN RatNorm([n |-> BigStrip(BigOver50(r.n)), e |-> r.e - 1])
    ELSE IF r.n = <<>> THEN [n |-> <<>>, e |-> 0]
    ELSE r

RatOfInt(i) == [n |-> BigOfInt(i), e |-> 0]

\* a < b for rationals
RatLess(a, b) == BigLess(BigTimesPow(a.n, 50, b.e), BigTimesPow(b.n, 50, a.e))

\* |a - b| for rationals, as a numerator over 50^(a.e + b.e)
RatDistance(a, b) ==
    BigDistance(BigTimesPow(a.n, 50, b.e), BigTimesPow(b.n, 50, a.e))

\* the new count weighted with the factor itself: ma * 0.82 + nusers * 0.82
MovingAverageStepWeightSlip(ma, nusers) ==
    RatNorm([n |-> BigPlus(BigStrip(BigTimes(ma.n, 41, 0)),
                           BigTimesPow(BigOfInt(nusers * 41), 50, ma.e), 0),
             e |-> ma.e + 1])

\* ma * 0.82 + nusers * (1 - 0.82), with 0.82 = 41/50
MovingAverageStep(ma, nusers) ==
    RatNorm([n |-> BigPlus(BigStrip(BigTimes(ma.n, 41, 0)),
                           BigTimesPow(BigOfInt(nusers * 9), 50, ma.e), 0),
             e |-> ma.e + 1])

\* text[:n]
Prefix(text, n) == SubSeq(text, 1, IF Len(text) < n THEN Len(text) ELSE n)

\* " ".join(text.strip().split())
CollapseWhitespace(text) ==
    LET F[i \in 0..Len(text)] ==
            IF i = 0 THEN <<>>
            ELSE LET prev == F[i - 1] IN
                 IF text[i] = " "
                 THEN IF prev = <<>> \/ prev[Len(prev)] = " "
                      THEN prev
                      ELSE Append(prev, " ")
                 ELSE Append(prev, text[i])
        r == F[Len(text)]
    IN  IF r # <<>> /\ r[Len(r)] = " " THEN SubSeq(r, 1, Len(r) - 1) ELSE r

\* the ellipsis appended to text[:length_soft_limit]
process_text_one_too_long(text, length_soft_limit) ==
    LET length_hard_limit == length_soft_limit * 2
        cut == IF Len(text) > length_hard_limit
               THEN Prefix(text, length_hard_limit)
               ELSE text
        collapsed == CollapseWhitespace(cut)
    IN  IF Len(collapsed) > length_soft_limit
        THEN Append(Prefix(collapsed, length_soft_limit), "...")
        ELSE collapsed

process_text(text, length_soft_limit) ==
    LET length_hard_limit == length_soft_limit * 2
        cut == IF Len(text) > length_hard_limit
               THEN Prefix(text, length_hard_limit)
               ELSE text
        collapsed == CollapseWhitespace(cut)
    IN  IF Len(collapsed) > length_soft_limit
        THEN Append(Prefix(collapsed, length_soft_limit - 1), "...")
        ELSE collapsed

\* bool(value) of a str-valued argument
TruthyText(value) ==
    value # Unchanged /\ value # None /\ value # Some(<<>>)

\* bool(value) of a bool-valued argument
TruthyBool(value) == value = Some(TRUE)

\* the text stored as it was given
_prepare_text_update_as_given(value, max_length) ==
    IF value = Unchanged THEN value
    ELSE IF ~TruthyText(value) THEN None
    ELSE value

_prepare_text_update(value, max_length) ==
    IF value = Unchanged THEN value
    ELSE IF ~TruthyText(value) THEN None
    ELSE Some(process_text(value[1], max_length))

\* merge(obj, attr, value): the attribute's new value, and whether it changed
MergeValue(old, value) == IF value = Unchanged THEN old ELSE value
MergeChanged(old, value) == value # Unchanged /\ old # value

\* -------------------------------------------------------------- variables
VARIABLES
    now,        \* the clock (datetime.utcnow() and time.monotonic())
    domains,    \* table domain: domain name -> row
    rooms,      \* table muc: address -> row
    public,     \* table public_muc: address -> row
    cache,      \* State._address_metadata_cache: address -> (ttl, data)
    classified, \* the is_public value each room was last classified with
    lastOp,     \* the Store operation that ran last, with its outcome
    emitted,    \* the signals the last Store operation fired
    connected,  \* a MirrorServer with a publish target listens to the signals
    sigq,       \* signal callbacks scheduled on the event loop (call_soon)
    queue,      \* MirrorServer._worker_pool._queue
    inflight,   \* items the pool's workers are processing
    remote,     \* the items of the pub/sub node: item id -> payload
    sync,       \* MirrorServer._stream_established: its position and locals
    search,     \* a client paging through Spokesman.handle_search
    analysis,   \* MUCHopper._analyse_address: what its last run did
    pool,       \* a WorkerPool: its queue, its workers and its callers
    job,        \* a PeriodicBackgroundTask: its pass and its WaitCounter
    client,     \* MirrorClient: its initial transfer
    enqueued,   \* history: the item MirrorServer enqueued last, by address
    insideman,  \* InsideMan, the MUCClient it joins with and the Watcher's pass
    task,       \* RobustBackgroundJobService: the job and its supervisor
    called      \* history: the arguments of the call made last

storeVars == <<now, domains, rooms, public, cache, classified, lastOp,
               emitted>>
mirrorVars == <<connected, sigq, queue, inflight, remote, sync>>
searchVars == <<search>>
auxVars == <<analysis, pool, job, client, enqueued, insideman, task, called>>
vars == <<now, domains, rooms, public, cache, classified, lastOp, emitted,
          connected, sigq, queue, inflight, remote, sync, search,
          analysis, pool, job, client, enqueued, insideman, task, called>>


\* ------------------------------------------------------------ table rows
Put(table, key, row) ==
    [k \in DOMAIN table \cup {key} |-> IF k = key THEN row ELSE table[k]]

Drop(table, keys) == [k \in DOMAIN table \ keys |-> table[k]]

\* Domain.id_ is an autoincrement surrogate: an id no present row uses
FreshDomainId(doms) ==
    LET used == {doms[d].id_ : d \in DOMAIN doms}
        free == (1..(Cardinality(used) + 1)) \ used
    IN  CHOOSE i \in free : \A j \in free : i <= j

DomainIds(doms) == {doms[d].id_ : d \in DOMAIN doms}

NewMUC(domain_id) ==
    [service_domain_id |-> domain_id,
     last_seen |-> None,
     nusers |-> None,
     nusers_moving_average |-> None,
     moving_average_last_update |-> None,
     is_open |-> None,
     is_hidden |-> FALSE,
     was_kicked |-> FALSE,
     anonymity_mode |-> None]

NewPubliclyListedMUC ==
    [subject |-> None,
     name |-> None,
     description |-> None,
     language |-> None,
     http_logs_url |-> None,
     web_chat_url |-> None]

\* the keyword arguments of update_muc_metadata, all at their default
NoArgs ==
    [nusers |-> Unchanged,
     is_open |-> Unchanged,
     is_public |-> Unchanged,
     subject |-> Unchanged,
     name |-> Unchanged,
     description |-> Unchanged,
     language |-> Unchanged,
     was_kicked |-> Unchanged,
     is_saveable |-> Unchanged,
     anonymity_mode |-> Unchanged,
     http_logs_url |-> Unchanged,
     web_chat_url |-> Unchanged]

AddressMetadata(reachable, muc, joinable, indexable, banned) ==
    [is_reachable |-> reachable,
     is_muc |-> muc,
     is_joinable_muc |-> joinable,
     is_indexable_muc |-> indexable,
     is_banned |-> banned]

\* ------------------------------------------------------ Store operations
\* Each operator computes the outcome of one Store method on the current
\* tables: the tables after the transaction (unchanged when it raised and
\* was rolled back) and the signals fired after the commit.

_require_domain(doms, key, seen) ==
    IF key \in DOMAIN doms
    THEN doms
    ELSE Put(doms, key,
             [id_ |-> FreshDomainId(doms),
              last_seen |-> IF seen THEN Some(now) ELSE None,
              delisted |-> FALSE,
              identities |-> {}])

\* muc.was_kicked or was_kicked or False
was_kicked_overwritten(old, was_kicked) == TruthyBool(was_kicked)

was_kicked_after(old, was_kicked) == old \/ TruthyBool(was_kicked)

\* DELETE FROM muc without the cascade to public_muc
delete_all_muc_data_no_cascade(a) ==
    [domains |-> domains,
     rooms |-> Drop(rooms, {a}),
     public |-> public,
     emitted |-> <<>>,
     raised |-> FALSE]

delete_all_muc_data(a) ==
    [domains |-> domains,
     rooms |-> Drop(rooms, {a}),
     public |-> Drop(public, {a}),
     emitted |-> <<>>,
     raised |-> FALSE]

update_muc_metadata(a, args) ==
    IF args.is_saveable = Some(FALSE)
    THEN delete_all_muc_data(a)
    ELSE
    LET description ==
            _prepare_text_update(args.description, max_description_length)
        name ==
            _prepare_text_update(
                args.name,
                IF TruthyText(description)
                THEN max_name_length
                ELSE max_description_length)
        subject == _prepare_text_update(args.subject, max_subject_length)
        language ==
            IF args.language = Unchanged THEN Unchanged
            ELSE IF ~TruthyText(args.language) THEN None
            ELSE Some(Prefix(args.language[1], max_language_length))
        muc_created == a \notin DOMAIN rooms
        key == JIDDomain(a)
        doms0 == _require_domain(domains, key, TRUE)
        doms1 == IF muc_created
                 THEN [doms0 EXCEPT ![key].last_seen = Some(now)]
                 ELSE domains
        muc0 == IF muc_created THEN NewMUC(doms1[key].id_) ELSE rooms[a]
        nusers1 == MergeValue(muc0.nusers, args.nusers)
        ma_unset == muc0.nusers_moving_average = None
        ma1 == IF ~ma_unset THEN muc0.nusers_moving_average
               ELSE IF nusers1 = None THEN None
               ELSE Some(RatOfInt(nusers1[1]))
        ma_upd1 == IF ma_unset THEN Some(now)
                   ELSE muc0.moving_average_last_update
        interval_over ==
            /\ args.nusers # Unchanged
            /\ ma_upd1 # None
            /\ ma_upd1[1] + MA_INTERVAL < now
        \* None + timedelta, None * float and float * None raise TypeError
        type_error ==
            /\ args.nusers # Unchanged
            /\ \/ ma_upd1 = None
               \/ interval_over /\ (ma1 = None \/ args.nusers = None)
        ma2 == IF interval_over /\ ~type_error
               THEN Some(MovingAverageStep(ma1[1], args.nusers[1]))
               ELSE ma1
        ma_upd2 == IF interval_over THEN Some(now) ELSE ma_upd1
        muc1 ==
            [muc0 EXCEPT
                !.last_seen = Some(now),
                !.is_open = MergeValue(muc0.is_open, args.is_open),
                !.anonymity_mode =
                    MergeValue(muc0.anonymity_mode, args.anonymity_mode),
                !.was_kicked =
                    was_kicked_after(muc0.was_kicked, args.was_kicked),
                !.nusers = nusers1,
                !.nusers_moving_average = ma2,
                !.moving_average_last_update = ma_upd2]
        want_public ==
            \/ TruthyBool(args.is_public)
            \/ /\ args.is_public = Unchanged
               /\ \/ TruthyText(subject)
                  \/ TruthyText(name)
                  \/ TruthyText(description)
        drop_public == ~want_public /\ args.is_public = Some(FALSE)
        public_muc0 == IF a \in DOMAIN public
                       THEN public[a]
                       ELSE NewPubliclyListedMUC
        public_muc1 ==
            [subject |-> MergeValue(public_muc0.subject, subject),
             name |-> MergeValue(public_muc0.name, name),
             description |->
                 MergeValue(public_muc0.description, description),
             language |-> MergeValue(public_muc0.language, language),
             http_logs_url |->
                 MergeValue(public_muc0.http_logs_url, args.http_logs_url),
             web_chat_url |->
                 MergeValue(public_muc0.web_chat_url, args.web_chat_url)]
        public1 == IF want_public THEN Put(public, a, public_muc1)
                   ELSE IF drop_public THEN Drop(public, {a})
                   ELSE public
        has_changes ==
            \/ muc_created
            \/ MergeChanged(muc0.is_open, args.is_open)
            \/ MergeChanged(muc0.anonymity_mode, args.anonymity_mode)
            \/ MergeChanged(muc0.nusers, args.nusers)
            \/ /\ want_public
               /\ \/ a \notin DOMAIN public
                  \/ public_muc1 # public_muc0
            \/ drop_public /\ a \in DOMAIN public
        \* muc.is_open is NOT NULL: the INSERT or UPDATE fails
        integrity_error == muc1.is_open = None
    IN  IF type_error \/ integrity_error
        THEN [domains |-> domains, rooms |-> rooms, public |-> public,
              emitted |-> <<>>, raised |-> TRUE]
        ELSE [domains |-> doms1,
              rooms |-> Put(rooms, a, muc1),
              public |-> public1,
              emitted |-> IF has_changes
                          THEN << <<"muc_changed", a>> >>
                          ELSE <<>>,
              raised |-> FALSE]


require_domain(key, seen) ==
    LET doms0 == _require_domain(domains, key, FALSE)
        \* seen is False (None), True (an offset of 0) or a timedelta
        doms1 == IF seen # None
                 THEN [doms0 EXCEPT ![key].last_seen = Some(now + seen[1])]
                 ELSE doms0
    IN  [domains |-> doms1, rooms |-> rooms, public |-> public,
         emitted |-> <<>>, raised |-> FALSE]

update_domain(key, identities) ==
    LET doms0 == _require_domain(domains, key, TRUE)
        doms1 == [doms0 EXCEPT ![key].last_seen = Some(now)]
        doms2 == IF identities # Unchanged
                 THEN [doms1 EXCEPT ![key].identities = identities[1]]
                 ELSE doms1
    IN  [domains |-> doms2, rooms |-> rooms, public |-> public,
         emitted |-> <<>>, raised |-> FALSE]

\* ... WHERE last_seen <= :t, the delisted rows included
ExpirableDomains_delisted_too(threshold) ==
    {d \in DOMAIN domains :
        /\ domains[d].last_seen # None
        /\ domains[d].last_seen[1] <= threshold}

\* the rows DELETE FROM domain WHERE last_seen <= :t AND delisted != true
\* selects; NULL <= :t is not true
ExpirableDomains(threshold) ==
    {d \in DOMAIN domains :
        /\ domains[d].last_seen # None
        /\ domains[d].last_seen[1] <= threshold
        /\ domains[d].delisted # TRUE}

\* the DELETE without the foreign key of muc.domain_id
expire_domains_unchecked(threshold) ==
    [domains |-> Drop(domains, ExpirableDomains(threshold)),
     rooms |-> rooms, public |-> public,
     emitted |-> <<>>, raised |-> FALSE]

expire_domains(threshold) ==
    LET victims == ExpirableDomains(threshold)
        \* muc.domain_id REFERENCES domain(id) without ON DELETE: the
        \* statement fails when a selected row is still referenced
        integrity_error ==
            \E a \in DOMAIN rooms :
                \E d \in victims : rooms[a].service_domain_id = domains[d].id_
    IN  IF integrity_error
        THEN [domains |-> domains, rooms |-> rooms, public |-> public,
              emitted |-> <<>>, raised |-> TRUE]
        ELSE [domains |-> Drop(domains, victims),
              rooms |-> rooms, public |-> public,
              emitted |-> <<>>, raised |-> FALSE]

expire_mucs(threshold) ==
    LET victims == {a \in DOMAIN rooms :
                        /\ rooms[a].last_seen # None
                        /\ rooms[a].last_seen[1] <= threshold}
    IN  [domains |-> domains,
         rooms |-> Drop(rooms, victims),
         \* public_muc.address REFERENCES muc(address) ON DELETE CASCADE
         public |-> Drop(public, victims),
         emitted |-> <<>>, raised |-> FALSE]

\* the cache consulted before the database
get_address_metadata_cache_first(a) ==
    IF a \in DOMAIN cache /\ now < cache[a].ttl
    THEN Some(cache[a].data)
    ELSE IF a \in DOMAIN rooms
    THEN Some(AddressMetadata(TRUE, TRUE, rooms[a].is_open[1],
                              a \in DOMAIN public, FALSE))
    ELSE None

\* the value get_address_metadata returns: None or Some(metadata)
get_address_metadata(a) ==
    IF a \in DOMAIN rooms
    THEN Some(AddressMetadata(TRUE, TRUE, rooms[a].is_open[1],
                              a \in DOMAIN public, FALSE))
    ELSE IF a \notin DOMAIN cache THEN None
    ELSE IF now >= cache[a].ttl THEN None
    ELSE Some(cache[a].data)

\* ---------------------------------------------------------------- actions
\* what the row of the operation's key looked like before the operation
Before(key) ==
    [room |-> key \in DOMAIN rooms,
     public |-> key \in DOMAIN public,
     was_kicked |-> key \in DOMAIN rooms /\ rooms[key].was_kicked,
     domains |-> {}]

BeforeDomains == [room |-> FALSE, public |-> FALSE, was_kicked |-> FALSE,
                  domains |-> DOMAIN domains]

NoResult == [op |-> "", key |-> "", raised |-> FALSE,
             result |-> None, threshold |-> None,
             was_kicked |-> Unchanged,
             before |-> [room |-> FALSE, public |-> FALSE,
                         was_kicked |-> FALSE, domains |-> {}]]

\* the event loop accepts another scheduled callback
CanEmit == connected => Len(sigq) < MaxSignals

\* the latest is_public classification of each room: cleared with the row
Classify(r, a, is_public) ==
    IF a \notin DOMAIN r.rooms THEN Drop(classified, {a})
    ELSE IF r.raised \/ is_public = Unchanged THEN classified
    ELSE Put(classified, a, is_public[1])

\* commit (or roll back) the outcome r of a Store operation and fire its
\* signals: every connected handler is scheduled with call_soon
Commit(r, op, key, threshold, was_kicked, before) ==
    /\ CanEmit
    /\ domains' = r.domains
    /\ rooms' = r.rooms
    /\ public' = r.public
    /\ emitted' = r.emitted
    /\ sigq' = IF connected THEN sigq \o r.emitted ELSE sigq
    /\ lastOp' = [NoResult EXCEPT !.op = op, !.key = key,
                                  !.raised = r.raised,
                                  !.threshold = threshold,
                                  !.was_kicked = was_kicked,
                                  !.before = before]

UpdateMucMetadata(a, args) ==
    LET r == update_muc_metadata(a, args) IN
    /\ Commit(r, "update_muc_metadata", a, None, args.was_kicked,
              Before(a))
    /\ cache' = Drop(cache, {a})
    /\ classified' = Classify(r, a, args.is_public)
    /\ UNCHANGED <<now, connected, queue, inflight, remote, sync, search>>
    /\ UNCHANGED auxVars

\* update_muc_metadata(a, **args), the call kept in the history
UpdateMucMetadataCalled(a, args) ==
    LET r == update_muc_metadata(a, args) IN
    /\ Commit(r, "update_muc_metadata", a, None, args.was_kicked,
              Before(a))
    /\ cache' = Drop(cache, {a})
    /\ classified' = Classify(r, a, args.is_public)
    /\ called' = [address |-> a, args |-> args]
    /\ UNCHANGED <<now, connected, queue, inflight, remote, sync, search>>
    /\ UNCHANGED <<analysis, pool, job, client, enqueued, insideman, task>>

\* The same call in a run of calls that all report the user count n for
\* the room a.  The history counts the calls made at least, and the calls
\* made more than, NUSERS_MOVING_AVERAGE_INTERVAL after the last update of
\* the moving average, and keeps the average the run has started from.
UpdateNusersCalled(a, n) ==
    LET args == [NoArgs EXCEPT !.nusers = Some(n)]
        r == update_muc_metadata(a, args)
        since == now - rooms[a].moving_average_last_update[1]
    IN
    /\ a \in DOMAIN rooms
    /\ called.args = args
    /\ called.spaced < MA_UPDATES
    /\ Commit(r, "update_muc_metadata", a, None, args.was_kicked,
              Before(a))
    /\ cache' = Drop(cache, {a})
    /\ classified' = Classify(r, a, args.is_public)
    /\ called' = [called EXCEPT
                     !.since = since,
                     !.spaced = @ + (IF since >= MA_INTERVAL THEN 1 ELSE 0),
                     !.apart = @ + (IF since > MA_INTERVAL THEN 1 ELSE 0)]
    /\ UNCHANGED <<now, connected, queue, inflight, remote, sync, search>>
    /\ UNCHANGED <<analysis, pool, job, client, enqueued, insideman, task>>

\* the time a run of MA_UPDATES updates of the moving average takes when
\* each comes as soon as the interval allows
AverageHorizon == MA_UPDATES * (MA_INTERVAL + 1) + 1

\* Time passes between the calls of such a run: a call is not awaited for
\* longer than it takes to be more than an interval after the last update.
AverageTick(a) ==
    /\ a \in DOMAIN rooms
    /\ now < AverageHorizon
    /\ now - rooms[a].moving_average_last_update[1] <= MA_INTERVAL
    /\ now' = now + 1
    /\ UNCHANGED <<domains, rooms, public, cache, classified, lastOp,
                   emitted, connected, sigq, queue, inflight, remote, sync,
                   search>>
    /\ UNCHANGED auxVars

DeleteAllMucData(a) ==
    LET r == delete_all_muc_data(a) IN
    /\ Commit(r, "delete_all_muc_data", a, None, Unchanged, Before(a))
    /\ classified' = Classify(r, a, Unchanged)
    /\ UNCHANGED <<now, cache, connected, queue, inflight, remote, sync,
                   search>>
    /\ UNCHANGED auxVars

ExpireMucs(threshold) ==
    LET r == expire_mucs(threshold) IN
    /\ Commit(r, "expire_mucs", "", Some(threshold), Unchanged,
              Before(""))
    /\ classified' = Drop(classified, DOMAIN classified \ DOMAIN r.rooms)
    /\ UNCHANGED <<now, cache, connected, queue, inflight, remote, sync,
                   search>>
    /\ UNCHANGED auxVars

ExpireDomains(threshold) ==
    /\ Commit(expire_domains(threshold), "expire_domains", "",
              Some(threshold), Unchanged, BeforeDomains)
    /\ UNCHANGED <<now, cache, classified, connected, queue, inflight,
                   remote, sync, search>>
    /\ UNCHANGED auxVars

RequireDomain(key, seen) ==
    /\ Commit(require_domain(key, seen), "require_domain", key, None,
              Unchanged, BeforeDomains)
    /\ UNCHANGED <<now, cache, classified, connected, queue, inflight,
                   remote, sync, search>>
    /\ UNCHANGED auxVars

UpdateDomain(key, identities) ==
    /\ Commit(update_domain(key, identities), "update_domain", key, None,
              Unchanged, BeforeDomains)
    /\ UNCHANGED <<now, cache, classified, connected, queue, inflight,
                   remote, sync, search>>
    /\ UNCHANGED auxVars

\* expire_metadata_cache iterates over the mapping, which yields its keys,
\* and unpacks each key, a JID of three fields, into `key, (ttl, _)`: the
\* first key raises ValueError
expire_metadata_cache_raises(c) == DOMAIN c # {}

\* the end of cache_address_metadata, for metadata that is neither joinable
\* nor indexable, on the cache c: when the cache is full and the address is
\* new, expire_metadata_cache is called and raises before the insertion
_cache_insert(c, a, metadata, ttl) ==
    LET raised == /\ Cardinality(DOMAIN c) = cache_maxsize
                  /\ a \notin DOMAIN c
                  /\ expire_metadata_cache_raises(c)
    IN  [cache |-> IF raised THEN c
                   ELSE Put(c, a, [ttl |-> now + ttl, data |-> metadata]),
         raised |-> raised]

CacheAddressMetadata(a, metadata, ttl) ==
    IF metadata.is_joinable_muc \/ metadata.is_indexable_muc
    THEN LET is_public == Some(metadata.is_indexable_muc)
             r == update_muc_metadata(
                      a, [NoArgs EXCEPT
                             !.is_open = Some(metadata.is_joinable_muc),
                             !.is_public = is_public])
         IN  /\ Commit(r, "cache_address_metadata", a, None, Unchanged,
                       Before(a))
             /\ cache' = Drop(cache, {a})
             /\ classified' = Classify(r, a, is_public)
             /\ UNCHANGED <<now, connected, queue, inflight, remote, sync,
                            search>>
             /\ UNCHANGED auxVars
    ELSE LET \* the deletion is committed before the cache is touched
             r == IF metadata.is_reachable
                  THEN delete_all_muc_data(a)
                  ELSE [domains |-> domains, rooms |-> rooms,
                        public |-> public, emitted |-> <<>>,
                        raised |-> FALSE]
             c == _cache_insert(cache, a, metadata, ttl)
         IN  /\ Commit([r EXCEPT !.raised = c.raised],
                       "cache_address_metadata", a, None, Unchanged,
                       Before(a))
             /\ cache' = c.cache
             /\ classified' = Classify(r, a, Unchanged)
             /\ UNCHANGED <<now, connected, queue, inflight, remote, sync,
                            search>>
             /\ UNCHANGED auxVars

\* the cache after get_address_metadata(a): an entry past its expiry is
\* deleted by the lookup that finds it
cache_after_lookup(a) ==
    IF a \notin DOMAIN rooms /\ a \in DOMAIN cache /\ now >= cache[a].ttl
    THEN Drop(cache, {a})
    ELSE cache

GetAddressMetadata(a) ==
    /\ lastOp' = [NoResult EXCEPT !.op = "get_address_metadata", !.key = a,
                                  !.result = get_address_metadata(a),
                                  !.before = Before(a)]
    /\ emitted' = <<>>
    /\ cache' = cache_after_lookup(a)
    /\ UNCHANGED <<now, domains, rooms, public, classified, connected, sigq,
                   queue, inflight, remote, sync, search>>
    /\ UNCHANGED auxVars

\* time passes
Tick ==
    /\ now < MaxTime
    /\ now' = now + 1
    /\ UNCHANGED <<domains, rooms, public, cache, classified, lastOp,
                   emitted, connected, sigq, queue, inflight, remote, sync,
                   search>>
    /\ UNCHANGED auxVars

\* A caller normalises a text: called holds the text, the soft limit and
\* what process_text has returned for it.
ProcessText ==
    /\ called.state = "text"
    /\ called.passes = 0
    /\ called' = [called EXCEPT
                     !.passes = 1,
                     !.result = process_text(called.text,
                                             called.length_soft_limit)]
    /\ UNCHANGED <<storeVars, mirrorVars, searchVars>>
    /\ UNCHANGED <<analysis, pool, job, client, enqueued, insideman, task>>

\* The caller normalises the returned text once more, with the same limit.
ProcessTextAgain ==
    /\ called.state = "text"
    /\ called.passes = 1
    /\ called' = [called EXCEPT
                     !.passes = 2,
                     !.text = called.result,
                     !.result = process_text(called.result,
                                             called.length_soft_limit)]
    /\ UNCHANGED <<storeVars, mirrorVars, searchVars>>
    /\ UNCHANGED <<analysis, pool, job, client, enqueued, insideman, task>>

\* ------------------------------------------- RobustBackgroundJobService

\* __task_watcher has been started and awaits the first run of the job
NewTask == [pc |-> "job", timer |-> 0, starts |-> 1, ended |-> <<>>]

JobOutcomes == {"exception", "return"}

\* _background_job raises an Exception or returns: the watcher logs it and
\* goes to sleep
BackgroundJobEnds(outcome) ==
    /\ task.pc = "job"
    /\ Len(task.ended) < MaxRuns
    /\ task' = [task EXCEPT !.pc = "sleep",
                            !.timer = RESTART_COOLDOWN,
                            !.ended = Append(@, outcome)]
    /\ UNCHANGED <<storeVars, mirrorVars, searchVars>>
    /\ UNCHANGED <<analysis, pool, job, client, enqueued, insideman, called>>

\* CancelledError handled like any other exception
BackgroundJobCancelledCaught ==
    /\ task.pc = "job"
    /\ task' = [task EXCEPT !.pc = "sleep",
                            !.timer = RESTART_COOLDOWN,
                            !.ended = Append(@, "cancelled")]
    /\ UNCHANGED <<storeVars, mirrorVars, searchVars>>
    /\ UNCHANGED <<analysis, pool, job, client, enqueued, insideman, called>>

\* _background_job raises CancelledError: the watcher returns
BackgroundJobCancelled ==
    /\ task.pc = "job"
    /\ task' = [task EXCEPT !.pc = "returned",
                            !.ended = Append(@, "cancelled")]
    /\ UNCHANGED <<storeVars, mirrorVars, searchVars>>
    /\ UNCHANGED <<analysis, pool, job, client, enqueued, insideman, called>>

\* a second of asyncio.sleep(1) passes
CooldownTick ==
    /\ task.pc = "sleep"
    /\ task.timer > 0
    /\ task' = [task EXCEPT !.timer = @ - 1]
    /\ UNCHANGED <<storeVars, mirrorVars, searchVars>>
    /\ UNCHANGED <<analysis, pool, job, client, enqueued, insideman, called>>

\* asyncio.sleep(1) returns: the loop awaits _background_job again
CooldownElapses ==
    /\ task.pc = "sleep"
    /\ task.timer = 0
    /\ task' = [task EXCEPT !.pc = "job", !.starts = @ + 1]
    /\ UNCHANGED <<storeVars, mirrorVars, searchVars>>
    /\ UNCHANGED <<analysis, pool, job, client, enqueued, insideman, called>>

\* asyncio.sleep(1) raises CancelledError: the watcher returns
CooldownCancelled ==
    /\ task.pc = "sleep"
    /\ task' = [task EXCEPT !.pc = "returned"]
    /\ UNCHANGED <<storeVars, mirrorVars, searchVars>>
    /\ UNCHANGED <<analysis, pool, job, client, enqueued, insideman, called>>

\* ---------------------------------------------------------------- Analyser
\* the results utils.collect_address_metadata can give: the all-false
\* metadata when the lookup fails, else disco_info_to_address_metadata
DiscoveredIn ==
    {AddressMetadata(FALSE, FALSE, FALSE, FALSE, FALSE),
     AddressMetadata(TRUE, FALSE, FALSE, FALSE, FALSE)}
    \cup {AddressMetadata(TRUE, TRUE, j, i, FALSE) : j, i \in BOOLEAN}

NoAnalysis ==
    [address |-> "", privileged |-> FALSE, looked_up |-> FALSE,
     forwarded |-> FALSE, raised |-> FALSE]

\* privileged submissions skip the cached result
AnalysisReturnsEarly_unless_privileged(metadata, privileged) ==
    /\ ~privileged
    /\ metadata # None
    /\ metadata[1].is_banned \/ ~metadata[1].is_joinable_muc

\* _analyse_address returns before the lookup: `privileged` is only logged
AnalysisReturnsEarly(metadata, privileged) ==
    /\ metadata # None
    /\ metadata[1].is_banned \/ ~metadata[1].is_joinable_muc

\* the three cache_address_metadata calls of _analyse_address, in order, on
\* the cache c; each condition is tested on its own (if, not elif) and an
\* exception of one call ends the handler. The metadata of DiscoveredIn is
\* neither joinable nor indexable wherever a condition holds.
AnalysisCacheWrites(c, a, discovered) ==
    LET c0 == [cache |-> c, raised |-> FALSE]
        c1 == IF discovered.is_banned
              THEN _cache_insert(c0.cache, a, discovered, CACHE_TTL_BANNED)
              ELSE c0
        c2 == IF ~c1.raised /\ ~discovered.is_reachable
              THEN _cache_insert(c1.cache, a, discovered,
                                 CACHE_TTL_UNREACHABLE)
              ELSE c1
        c3 == IF ~c2.raised /\ ~discovered.is_muc
              THEN _cache_insert(c2.cache, a, discovered, CACHE_TTL_NON_MUC)
              ELSE c2
    IN  c3

\* MUCHopper._analyse_address((a, None, privileged)); `discovered` is what
\* the service-info lookup gives if it is made
AnalyseAddress(a, privileged, discovered) ==
    LET metadata == get_address_metadata(a)
        c0 == cache_after_lookup(a)
        same == [domains |-> domains, rooms |-> rooms, public |-> public,
                 emitted |-> <<>>, raised |-> FALSE]
        ran == [NoAnalysis EXCEPT !.address = a, !.privileged = privileged]
    IN  IF AnalysisReturnsEarly(metadata, privileged)
        THEN /\ Commit(same, "analyse_address", a, None, Unchanged,
                       Before(a))
             /\ cache' = c0
             /\ classified' = classified
             /\ analysis' = ran
             /\ UNCHANGED <<now, connected, queue, inflight, remote, sync,
                            search, pool, job, client, enqueued, insideman, task, called>>
        ELSE LET \* a reachable address that is no MUC: the third call
                 \* deletes its rows before it touches the cache
                 r == IF discovered.is_reachable /\ ~discovered.is_muc
                      THEN delete_all_muc_data(a)
                      ELSE same
                 c == AnalysisCacheWrites(c0, a, discovered)
             IN  /\ Commit([r EXCEPT !.raised = c.raised],
                           "analyse_address", a, None, Unchanged, Before(a))
                 /\ cache' = c.cache
                 /\ classified' = Classify(r, a, Unchanged)
                 /\ analysis' =
                        [ran EXCEPT
                            !.looked_up = TRUE,
                            !.raised = c.raised,
                            !.forwarded =
                                /\ ~c.raised
                                /\ \/ discovered.is_joinable_muc
                                   \/ discovered.is_indexable_muc]
                 /\ UNCHANGED <<now, connected, queue, inflight, remote,
                                sync, search, pool, job, client, enqueued, insideman, task, called>>

\* -------------------------------------------------------------- WorkerPool
\* (muchopper/bot/worker_pool.py).  The pool owns an asyncio.Queue of
\* MaxQueueSize slots and nworkers worker tasks.  Each worker task spawns
\* one more task per round, item_future, which runs Queue.get(); the two
\* tasks are scheduled independently of each other and of the callers of
\* enqueue and close.  A worker is
\*   "get"        suspended in asyncio.wait, item_future not yet completed
\*   "got"        suspended in asyncio.wait, item_future holds an item
\*   "processing" suspended in wait_for(processor(item))
\*   "sleeping"   suspended in asyncio.sleep(delay)
\*   "done"       returned or cancelled
\* stop_flag, the task of _stop_event.wait(), completes only after close has
\* set the event, so "stop_flag in done" implies _stop_event.is_set() and
\* the break of line 78 and the loop condition of line 48 agree.  Items are numbered in the order of the enqueue
\* calls.  started (the items handed to the processor), at_close (the
\* queue when close was called), suspended (the items whose enqueue had to
\* wait) and errors (the number of logged processor failures) are history.
ItemIds == 1..MaxItems
Outcomes == {"ok", "exception", "timeout"}

NewWorker == [pc |-> "get", item |-> 0]

NewPool(delay) ==
    [queue |-> <<>>, putters |-> <<>>, stop |-> FALSE, forced |-> FALSE,
     delay |-> delay, workers |-> [w \in 1..nworkers |-> NewWorker],
     next |-> 1, started |-> {}, at_close |-> {}, suspended |-> {},
     errors |-> 0, joined |-> FALSE]

\* asyncio.Queue.full()
QueueFull(p) == Len(p.queue) >= MaxQueueSize

\* WorkerPool.enqueue_nowait: Queue.put_nowait raises QueueFull on a full
\* queue
EnqueueNowait ==
    /\ pool.next <= MaxItems
    /\ pool' = IF QueueFull(pool)
               THEN [pool EXCEPT !.next = @ + 1]
               ELSE [pool EXCEPT !.queue = Append(@, pool.next),
                                 !.next = @ + 1]
    /\ UNCHANGED <<storeVars, mirrorVars, searchVars, analysis, job, client,
                   enqueued, insideman, task, called>>

\* WorkerPool.enqueue: Queue.put waits on a putter future while the queue is
\* full
Enqueue ==
    /\ pool.next <= MaxItems
    /\ pool' = IF QueueFull(pool)
               THEN [pool EXCEPT !.putters = Append(@, pool.next),
                                 !.suspended = @ \cup {pool.next},
                                 !.next = @ + 1]
               ELSE [pool EXCEPT !.queue = Append(@, pool.next),
                                 !.next = @ + 1]
    /\ UNCHANGED <<storeVars, mirrorVars, searchVars, analysis, job, client,
                   enqueued, insideman, task, called>>

PutterMayResume_on_full_queue(p) == p.putters # <<>>

\* Queue.get_nowait wakes the first putter; the putter then re-tests full()
PutterMayResume(p) == p.putters # <<>> /\ ~QueueFull(p)

EnqueueResumes ==
    /\ PutterMayResume(pool)
    /\ pool' = [pool EXCEPT !.queue = Append(@, Head(pool.putters)),
                            !.putters = Tail(@)]
    /\ UNCHANGED <<storeVars, mirrorVars, searchVars, analysis, job, client,
                   enqueued, insideman, task, called>>

\* the head of the queue read but left in the queue
ItemFutureCompletes_peeking(w) ==
    /\ pool.workers[w].pc = "get"
    /\ pool.queue # <<>>
    /\ pool' = [pool EXCEPT !.workers[w].pc = "got",
                            !.workers[w].item = Head(pool.queue)]
    /\ UNCHANGED <<storeVars, mirrorVars, searchVars, analysis, job, client,
                   enqueued, insideman, task, called>>

\* item_future = ensure_future(self._queue.get()): the task takes the head
\* of the queue when it runs
ItemFutureCompletes(w) ==
    /\ pool.workers[w].pc = "get"
    /\ pool.queue # <<>>
    /\ pool' = [pool EXCEPT !.queue = Tail(@),
                            !.workers[w].pc = "got",
                            !.workers[w].item = Head(pool.queue)]
    /\ UNCHANGED <<storeVars, mirrorVars, searchVars, analysis, job, client,
                   enqueued, insideman, task, called>>

\* the worker's continuation after the processor and the delay: the test of
\* "stop_flag in done", then the loop condition
NextRound(p, w) ==
    IF p.stop
    THEN [p EXCEPT !.workers[w].pc = "done", !.workers[w].item = 0]
    ELSE [p EXCEPT !.workers[w].pc = "get", !.workers[w].item = 0]

\* asyncio.wait(..., FIRST_COMPLETED) returns: with the item when
\* item_future is done, and without one once stop_flag is done
WorkerResumes(w) ==
    LET me == pool.workers[w] IN
    /\ \/ me.pc = "got"
       \/ me.pc = "get" /\ pool.stop
    /\ pool' = IF me.pc = "got"
               THEN [pool EXCEPT !.workers[w].pc = "processing",
                                 !.started = @ \cup {me.item}]
               ELSE [pool EXCEPT !.workers[w].pc = "done"]
    /\ UNCHANGED <<storeVars, mirrorVars, searchVars, analysis, job, client,
                   enqueued, insideman, task, called>>

AfterProcessor_propagating(p, w, outcome) ==
    IF outcome = "ok"
    THEN IF p.delay THEN [p EXCEPT !.workers[w].pc = "sleeping"]
         ELSE NextRound(p, w)
    ELSE [p EXCEPT !.workers[w].pc = "done", !.workers[w].item = 0,
                   !.errors = @ + 1]

\* lines 57-73: TimeoutError and Exception are logged, then the delay
AfterProcessor(p, w, outcome) ==
    LET logged == IF outcome = "ok" THEN p
                  ELSE [p EXCEPT !.errors = @ + 1]
    IN  IF p.delay THEN [logged EXCEPT !.workers[w].pc = "sleeping"]
        ELSE NextRound(logged, w)

ProcessorReturns(w, outcome) ==
    /\ pool.workers[w].pc = "processing"
    /\ pool' = AfterProcessor(pool, w, outcome)
    /\ UNCHANGED <<storeVars, mirrorVars, searchVars, analysis, job, client,
                   enqueued, insideman, task, called>>

DelayElapses(w) ==
    /\ pool.workers[w].pc = "sleeping"
    /\ pool' = NextRound(pool, w)
    /\ UNCHANGED <<storeVars, mirrorVars, searchVars, analysis, job, client,
                   enqueued, insideman, task, called>>

\* WorkerPool.close
Close(force) ==
    /\ ~pool.stop
    /\ pool' = [pool EXCEPT !.stop = TRUE, !.forced = force,
                            !.at_close = Range(pool.queue),
                            !.workers = [w \in 1..nworkers |->
                                IF force
                                THEN [pool.workers[w] EXCEPT !.pc = "done"]
                                ELSE pool.workers[w]]]
    /\ UNCHANGED <<storeVars, mirrorVars, searchVars, analysis, job, client,
                   enqueued, insideman, task, called>>

\* WorkerPool.wait_closed returns
AllWorkersDone(p) == \A w \in 1..nworkers : p.workers[w].pc = "done"

WaitClosed ==
    /\ AllWorkersDone(pool)
    /\ ~pool.joined
    /\ pool' = [pool EXCEPT !.joined = TRUE]
    /\ UNCHANGED <<storeVars, mirrorVars, searchVars, analysis, job, client,
                   enqueued, insideman, task, called>>

\* ------------------------------------------------------------ MirrorServer
\* queries.base_filter on one muc row
base_filter(muc, include_closed) ==
    /\ include_closed \/ muc.is_open = Some(TRUE)
    /\ muc.is_hidden = FALSE

\* the addresses of the (MUC, PubliclyListedMUC) pairs of queries.base_query
base_query(include_closed) ==
    {a \in DOMAIN rooms \cap DOMAIN public :
        base_filter(rooms[a], include_closed)}

\* the payload of a retraction: it carries the address only
NoData ==
    [is_open |-> None, anonymity_mode |-> None, nusers |-> None,
     name |-> None, language |-> None, description |-> None]

\* xso.SyncItemMUC of the row, bound to _do_muc_update
_compose_muc_update(a) ==
    [kind |-> "update",
     address |-> a,
     data |-> [is_open |-> rooms[a].is_open,
               anonymity_mode |-> rooms[a].anonymity_mode,
               nusers |-> rooms[a].nusers_moving_average,
               name |-> public[a].name,
               language |-> public[a].language,
               description |-> public[a].description]]

_compose_muc_delete(a) ==
    [kind |-> "delete", address |-> a, data |-> NoData]

\* enqueue_nowait: asyncio.QueueFull is caught and the item is lost
_enqueue_update(q, item) ==
    IF Len(q) >= MaxQueueSize THEN q ELSE Append(q, item)

\* the history of the enqueued items after the queue q has become q2
Enqueued(q, q2) ==
    IF Len(q2) > Len(q)
    THEN Put(enqueued, q2[Len(q2)].address, q2[Len(q2)])
    ELSE enqueued

_on_muc_changed(a) ==
    IF a \in base_query(FALSE)
    THEN _enqueue_update(queue, _compose_muc_update(a))
    ELSE _enqueue_update(queue, _compose_muc_delete(a))

_on_muc_deleted(a) == _enqueue_update(queue, _compose_muc_delete(a))

\* the event loop runs the callback a signal scheduled with call_soon
RunSignalHandler ==
    /\ sigq # <<>>
    /\ LET signal == Head(sigq) IN
       queue' = IF signal[1] = "muc_changed"
                THEN _on_muc_changed(signal[2])
                ELSE IF signal[1] = "muc_deleted"
                THEN _on_muc_deleted(signal[2])
                ELSE queue
    /\ sigq' = Tail(sigq)
    /\ enqueued' = Enqueued(queue, queue')
    /\ UNCHANGED <<now, domains, rooms, public, cache, classified, lastOp,
                   emitted, connected, inflight, remote, sync, search>>
    /\ UNCHANGED <<analysis, pool, job, client, insideman, task, called>>

\* WorkerPool._worker: self._queue.get() hands an idle worker an item
WorkerGet ==
    /\ queue # <<>>
    /\ BagCardinality(inflight) < WORKER_POOL_SIZE
    /\ inflight' = inflight (+) SetToBag({Head(queue)})
    /\ queue' = Tail(queue)
    /\ UNCHANGED <<now, domains, rooms, public, cache, classified, lastOp,
                   emitted, connected, sigq, remote, sync, search>>
    /\ UNCHANGED auxVars

\* pubsub publish with id_ = str(data.address)
_do_muc_update(item) == Put(remote, item.address, item.data)

\* pubsub retract: item-not-found is ignored
_do_muc_delete(item) == Drop(remote, {item.address})

\* MirrorServer._handle_item: the worker's request completes on the node
WorkerProcess(item) ==
    /\ BagIn(item, inflight)
    /\ remote' = IF item.kind = "update"
                 THEN _do_muc_update(item)
                 ELSE _do_muc_delete(item)
    /\ inflight' = inflight (-) SetToBag({item})
    /\ UNCHANGED <<now, domains, rooms, public, cache, classified, lastOp,
                   emitted, connected, sigq, queue, sync, search>>
    /\ UNCHANGED auxVars

\* the lists a query without ORDER BY can return the rows of S as
ListsOf(S) ==
    {l \in [1..Cardinality(S) -> S] : {l[i] : i \in DOMAIN l} = S}

\* _stream_established: the node answers disco#items
StreamEstablishedQueryItems ==
    /\ connected
    /\ sync.pc = "idle"
    /\ sync' = [sync EXCEPT !.pc = "query_items",
                            !.existing_addresses = DOMAIN remote]
    /\ UNCHANGED <<now, domains, rooms, public, cache, classified, lastOp,
                   emitted, connected, sigq, queue, inflight, remote,
                   search>>
    /\ UNCHANGED auxVars

\* the addresses found in the database stay in existing_addresses
StreamEstablishedCompareKeepsFound ==
    /\ sync.pc = "query_items"
    /\ \E rows \in ListsOf(base_query(FALSE)) :
         LET missing == SelectSeq(rows,
                 LAMBDA a : a \notin sync.existing_addresses)
         IN  sync' = [pc |-> "enqueue",
                      existing_addresses |-> sync.existing_addresses,
                      updates |->
                          [i \in DOMAIN missing |->
                              _compose_muc_update(missing[i])]]
    /\ UNCHANGED <<now, domains, rooms, public, cache, classified, lastOp,
                   emitted, connected, sigq, queue, inflight, remote,
                   search>>
    /\ UNCHANGED auxVars

\* _stream_established: the answer is compared with the database
StreamEstablishedCompare ==
    /\ sync.pc = "query_items"
    /\ \E rows \in ListsOf(base_query(FALSE)) :
         LET missing == SelectSeq(rows,
                 LAMBDA a : a \notin sync.existing_addresses)
         IN  sync' = [pc |-> "enqueue",
                      existing_addresses |->
                          sync.existing_addresses \ base_query(FALSE),
                      updates |->
                          [i \in DOMAIN missing |->
                              _compose_muc_update(missing[i])]]
    /\ UNCHANGED <<now, domains, rooms, public, cache, classified, lastOp,
                   emitted, connected, sigq, queue, inflight, remote,
                   search>>
    /\ UNCHANGED auxVars

\* _stream_established: await self._worker_pool.enqueue(update)
StreamEstablishedEnqueueUpdate ==
    /\ sync.pc = "enqueue"
    /\ sync.updates # <<>>
    /\ Len(queue) < MaxQueueSize
    /\ queue' = Append(queue, Head(sync.updates))
    /\ sync' = [sync EXCEPT !.updates = Tail(sync.updates)]
    /\ enqueued' = Enqueued(queue, queue')
    /\ UNCHANGED <<now, domains, rooms, public, cache, classified, lastOp,
                   emitted, connected, sigq, inflight, remote, search>>
    /\ UNCHANGED <<analysis, pool, job, client, insideman, task, called>>

\* _stream_established: a delete for each address left in the set
StreamEstablishedEnqueueDelete ==
    /\ sync.pc = "enqueue"
    /\ sync.updates = <<>>
    /\ Len(queue) < MaxQueueSize
    /\ \E a \in sync.existing_addresses :
         /\ queue' = Append(queue, _compose_muc_delete(a))
         /\ sync' = [sync EXCEPT
                        !.existing_addresses = sync.existing_addresses \ {a}]
    /\ enqueued' = Enqueued(queue, queue')
    /\ UNCHANGED <<now, domains, rooms, public, cache, classified, lastOp,
                   emitted, connected, sigq, inflight, remote, search>>
    /\ UNCHANGED <<analysis, pool, job, client, insideman, task, called>>

\* _stream_established returns
StreamEstablishedDone ==
    /\ sync.pc = "enqueue"
    /\ sync.updates = <<>>
    /\ sync.existing_addresses = {}
    /\ sync' = [sync EXCEPT !.pc = "done"]
    /\ UNCHANGED <<now, domains, rooms, public, cache, classified, lastOp,
                   emitted, connected, sigq, queue, inflight, remote,
                   search>>
    /\ UNCHANGED auxVars

\* --------------------------------------------------------------- Spokesman
\* MUC.address compares as a string: the position in AddressOrder
AddressRank(a) == CHOOSE i \in 1..Len(AddressOrder) : AddressOrder[i] = a

\* nusers_moving_average < after in SQL: a NULL average never matches
NusersBelow(ma, after) == ma # None /\ RatLess(ma[1], after)

\* _base_query_nusers and _base_query_address before the ORDER BY: the
\* rows of queries.base_query(session) past the key `after`
_base_query_rows(order_by, after) ==
    {a \in base_query(FALSE) :
        \/ after = None
        \/ /\ order_by = "nusers"
           /\ NusersBelow(rooms[a].nusers_moving_average, after[1])
        \/ /\ order_by = "address"
           /\ AddressRank(a) > AddressRank(after[1])}

\* the filter handle_search adds for a positive min_users
MinUsersFilter(rows, min_users) ==
    IF min_users > 0
    THEN {a \in rows :
             /\ rooms[a].nusers_moving_average # None
             /\ ~RatLess(rooms[a].nusers_moving_average[1],
                         RatOfInt(min_users))}
    ELSE rows

\* ORDER BY nusers_moving_average DESC: NULL sorts below every number and
\* rows with equal averages come in any order
NusersNotBelow(a, b) ==
    LET ma == rooms[a].nusers_moving_average
        mb == rooms[b].nusers_moving_average
    IN  mb = None \/ (ma # None /\ ~RatLess(ma[1], mb[1]))

\* the lists the ordered query can return
OrderedLists(rows, order_by) ==
    {l \in ListsOf(rows) :
        \A i, j \in DOMAIN l :
            i < j =>
                IF order_by = "nusers"
                THEN NusersNotBelow(l[i], l[j])
                ELSE AddressRank(l[i]) < AddressRank(l[j])}

\* _key_nusers and _key_address; str() of the key and float() or
\* JID.fromstr() of `after` give the key back
KeyOf(a, order_by) ==
    IF order_by = "nusers"
    THEN rooms[a].nusers_moving_average[1]
    ELSE a

\* max_ of handle_search for the max of the request's rsm
PageSize(rsm_max) ==
    IF rsm_max # None /\ rsm_max[1] > 0
    THEN Max2(IF DEFAULT_MAX < rsm_max[1] THEN DEFAULT_MAX ELSE rsm_max[1],
              1)
    ELSE DEFAULT_MAX

\* str.lower() of a character, for the letters the texts of the model use
Lower(c) ==
    IF c = "F" THEN "f" ELSE IF c = "O" THEN "o" ELSE IF c = "B" THEN "b"
    ELSE c

LowerText(text) == [i \in DOMAIN text |-> Lower(text[i])]

\* column ILIKE '%' || keyword || '%': NULL matches nothing
ILike(column, keyword) ==
    /\ column # None
    /\ \E i \in 1..(Len(column[1]) - Len(keyword) + 1) :
           SubSeq(LowerText(column[1]), i, i + Len(keyword) - 1)
               = LowerText(keyword)

\* shlex.split of a text without quotes and escapes: the maximal runs of
\* characters other than blanks
RECURSIVE ShlexSplit(_, _)
ShlexSplit(text, word) ==
    IF text = <<>> THEN (IF word = <<>> THEN {} ELSE {word})
    ELSE IF Head(text) = " "
    THEN (IF word = <<>> THEN {} ELSE {word}) \cup ShlexSplit(Tail(text), <<>>)
    ELSE ShlexSplit(Tail(text), Append(word, Head(text)))

\* queries.prepare_keywords(query_string): the words of min_length or more
prepare_keywords(query_string) ==
    {keyword \in ShlexSplit(query_string, <<>>) :
        Len(keyword) >= KEYWORD_MIN_LENGTH}

\* str(muc.address), as the ILIKE on the address column sees it
AddressText(a) ==
    IF a = "r1@d1" THEN <<"r", "1", "@", "d", "1">>
    ELSE IF a = "r2@d2" THEN <<"r", "2", "@", "d", "2">>
    ELSE <<"r", "3", "@", "d", "2">>

\* apply_search_conditions with the keywords chained by OR
apply_search_conditions_any(rows, keywords, scopes) ==
    {a \in rows :
        \E keyword \in keywords :
            \/ scopes.address /\ ILike(Some(AddressText(a)), keyword)
            \/ scopes.description /\ ILike(public[a].description, keyword)
            \/ scopes.name /\ ILike(public[a].name, keyword)}

\* queries.apply_search_conditions: one filter per keyword, each the OR of
\* the ILIKEs over the enabled scopes
apply_search_conditions(rows, keywords, scopes) ==
    {a \in rows :
        \A keyword \in keywords :
            \/ scopes.address /\ ILike(Some(AddressText(a)), keyword)
            \/ scopes.description /\ ILike(public[a].description, keyword)
            \/ scopes.name /\ ILike(public[a].name, keyword)}

\* the defaults of xso.SearchForm: sinaddr, sindescription, sinname
AllScopes == [address |-> TRUE, description |-> TRUE, name |-> TRUE]

\* the replies handle_search can give to one request with the query q
handle_search_query(order_by, after, rsm_max, min_users, q, scopes) ==
    LET max_ == PageSize(rsm_max)
        keywords == prepare_keywords(q)
        rejected ==
            /\ q # <<>>
            /\ \/ ~scopes.address /\ ~scopes.description /\ ~scopes.name
               \/ keywords = {}
               \/ Cardinality(keywords) > MAX_KEYWORDS
        matching == MinUsersFilter(_base_query_rows(order_by, after),
                                   min_users)
        rows == IF q = <<>> THEN matching
                ELSE apply_search_conditions(matching, keywords, scopes)
    IN  IF rejected
        THEN {[error |-> TRUE, more |-> FALSE, items |-> <<>>,
               last |-> None]}
        ELSE
        {LET fetched == Prefix(l, max_ + 1)
             results == Prefix(fetched, max_)
             \* round(None) raises TypeError
             failed == \E i \in DOMAIN results :
                           rooms[results[i]].nusers_moving_average = None
         IN  [error |-> failed,
              more |-> Len(fetched) > max_,
              items |-> IF failed THEN <<>> ELSE results,
              last |-> IF failed \/ results = <<>> THEN None
                       ELSE Some(KeyOf(results[Len(results)], order_by))]
         : l \in OrderedLists(rows, order_by)}

\* the replies handle_search can give to one request without a query
handle_search(order_by, after, rsm_max, min_users) ==
    handle_search_query(order_by, after, rsm_max, min_users, <<>>, AllScopes)

NoSearch ==
    [pc |-> "idle", order_by |-> "", rsm_max |-> None, min_users |-> 0,
     q |-> <<>>, after |-> None, more |-> FALSE, visited |-> <<>>]

\* the client takes a reply: it goes on while there are more rows
TakeReply(request, reply) ==
    [request EXCEPT
        !.pc = IF reply.error THEN "error"
               ELSE IF reply.more THEN "paging"
               ELSE "done",
        !.after = reply.last,
        !.more = reply.more,
        !.visited = request.visited \o reply.items]

\* the first request of a client: no rsm.after
SearchFirst(order_by, rsm_max, min_users) ==
    /\ search.pc = "idle"
    /\ \E reply \in handle_search(order_by, None, rsm_max, min_users) :
         search' = TakeReply([NoSearch EXCEPT !.order_by = order_by,
                                              !.rsm_max = rsm_max,
                                              !.min_users = min_users],
                             reply)
    /\ UNCHANGED <<now, domains, rooms, public, cache, classified, lastOp,
                   emitted, connected, sigq, queue, inflight, remote, sync>>
    /\ UNCHANGED auxVars

\* the next request: rsm.after is the rsm.last of the previous reply
SearchNext ==
    /\ search.pc = "paging"
    /\ \E reply \in handle_search_query(search.order_by, search.after,
                                        search.rsm_max, search.min_users,
                                        search.q, AllScopes) :
         search' = TakeReply(search, reply)
    /\ UNCHANGED <<now, domains, rooms, public, cache, classified, lastOp,
                   emitted, connected, sigq, queue, inflight, remote, sync>>
    /\ UNCHANGED auxVars

\* the first request of a client that searches for q in the default
\* scopes: no rsm.after
SearchQueryFirst(order_by, rsm_max, min_users, q) ==
    /\ search.pc = "idle"
    /\ \E reply \in handle_search_query(order_by, None, rsm_max, min_users,
                                        q, AllScopes) :
         search' = TakeReply([NoSearch EXCEPT !.order_by = order_by,
                                              !.rsm_max = rsm_max,
                                              !.min_users = min_users,
                                              !.q = q],
                             reply)
    /\ UNCHANGED <<now, domains, rooms, public, cache, classified, lastOp,
                   emitted, connected, sigq, queue, inflight, remote, sync>>
    /\ UNCHANGED auxVars

\* ---------------------------------------------------- PeriodicBackgroundTask
\* (muchopper/bot/utils.py), as the Scanner instantiates it
\* (muchopper/bot/scanner.py).  _background_job runs _collect_and_schedule
\* in a loop; the job is
\*   "idle"     at the top of the loop
\*   "enqueue"  in the for loop over the items, suspended in enqueue while
\*              the pool's queue is full
\*   "wait"     suspended in ctr.wait()
\*   "sleep"    suspended in asyncio.sleep until MIN_INTERVAL has passed
\* items are the items of the pass not yet enqueued, queue is the queue of
\* the job's worker pool and handling the items its workers are processing.

\* WaitCounter(max_)
WaitCounter(max_) == [max |-> max_, value |-> 0, event |-> FALSE]

\* WaitCounter.submit
submit(ctr) ==
    [ctr EXCEPT !.value = @ + 1, !.event = @ \/ ctr.value + 1 >= ctr.max]

NewJob == [pc |-> "idle", items |-> <<>>, ctr |-> WaitCounter(0),
           queue |-> <<>>, handling |-> {}]

\* State.get_scannable_domains: the domains that are not delisted
get_scannable_domains == {d \in DOMAIN domains : domains[d].delisted # TRUE}

\* _collect_and_schedule up to the for loop; items is the shuffled list
CollectItems(items) ==
    /\ job.pc = "idle"
    /\ items \in ListsOf(get_scannable_domains)
    /\ job' = [job EXCEPT !.pc = "enqueue", !.items = items,
                          !.ctr = WaitCounter(Len(items))]
    /\ UNCHANGED <<storeVars, mirrorVars, searchVars, analysis, pool, client,
                   enqueued, insideman, task, called>>

\* await self._worker_pool.enqueue((state, address, ctr, None))
EnqueueItem ==
    /\ job.pc = "enqueue"
    /\ job.items # <<>>
    /\ Len(job.queue) < MaxQueueSize
    /\ job' = [job EXCEPT !.items = Tail(@),
                          !.queue = Append(@, Head(job.items))]
    /\ UNCHANGED <<storeVars, mirrorVars, searchVars, analysis, pool, client,
                   enqueued, insideman, task, called>>

\* the for loop is over: await ctr.wait()
AwaitCounter ==
    /\ job.pc = "enqueue"
    /\ job.items = <<>>
    /\ job' = [job EXCEPT !.pc = "wait"]
    /\ UNCHANGED <<storeVars, mirrorVars, searchVars, analysis, pool, client,
                   enqueued, insideman, task, called>>

\* a worker of the pool takes an item and calls _handle_item
WorkerTakesItem ==
    /\ job.queue # <<>>
    /\ job' = [job EXCEPT !.queue = Tail(@),
                          !.handling = @ \cup {Head(job.queue)}]
    /\ UNCHANGED <<storeVars, mirrorVars, searchVars, analysis, pool, client,
                   enqueued, insideman, task, called>>

\* _handle_item returns or raises: _process_item has updated the domain
\* ("ok"), has raised or was cut off by a timeout; the finally clause
\* submits to the counter in each case
HandleItemReturns(d, outcome) ==
    /\ d \in job.handling
    /\ job' = [job EXCEPT !.handling = @ \ {d}, !.ctr = submit(@)]
    /\ IF outcome = "ok"
       THEN /\ Commit(update_domain(d, Unchanged), "update_domain", d, None,
                      Unchanged, BeforeDomains)
            /\ UNCHANGED <<now, cache, classified, connected, queue,
                           inflight, remote, sync>>
       ELSE UNCHANGED <<storeVars, mirrorVars>>
    /\ UNCHANGED <<searchVars, analysis, pool, client,
                   enqueued, insideman, task, called>>

\* ctr.wait() returns; the job goes to sleep for the rest of MIN_INTERVAL
PassCompletes ==
    /\ job.pc = "wait"
    /\ job.ctr.event
    /\ job' = [job EXCEPT !.pc = "sleep"]
    /\ UNCHANGED <<storeVars, mirrorVars, searchVars, analysis, pool, client,
                   enqueued, insideman, task, called>>

\* asyncio.sleep returns: the loop of _background_job starts the next pass
SleepElapses ==
    /\ job.pc = "sleep"
    /\ job' = [job EXCEPT !.pc = "idle"]
    /\ UNCHANGED <<storeVars, mirrorVars, searchVars, analysis, pool, client,
                   enqueued, insideman, task, called>>

\* Scanner._execute, lines 305-308: the expiry sweep.  Nothing calls
\* _execute: _background_job calls _collect_and_schedule, and
\* PeriodicBackgroundTask defines no _execute for super() to reach.  The
\* action is therefore no part of any next-state relation.
_execute == ExpireDomains(now - expire_after)

\* ------------------------------------------------------------ MirrorClient
\* (muchopper/bot/mirror.py).  remote holds the items of the source node,
\* client the position of _on_stream_established
\*   "idle"        before pubsub.subscribe
\*   "subscribed"  before disco.query_items
\*   "queried"     existing_ids is set, before the download
\*   "returned"    the handler has returned early
\*   "raised"      the handler has raised
\* its local existing_ids, whether the node has the client as a subscriber,
\* and the notifications of the node that are on their way to the client.
\* State.state is set by the daemon right after the service is summoned
\* (daemon.py:237), before any stream exists.
NewClient ==
    [pc |-> "idle", subscribed |-> FALSE, existing_ids |-> {},
     events |-> <<>>]

\* the stream is (re-)established: before_stream_established fires
BeforeStreamEstablished ==
    /\ client.pc \in {"returned", "raised"}
    /\ client' = [client EXCEPT !.pc = "idle", !.existing_ids = {}]
    /\ UNCHANGED <<storeVars, mirrorVars, searchVars, analysis, pool, job,
                   enqueued, insideman, task, called>>

\* await pubsub.subscribe(...): a conflict makes the handler return, any
\* other error propagates
ClientSubscribe(result) ==
    /\ client.pc = "idle"
    /\ result = "conflict" => client.subscribed
    /\ client' = [client EXCEPT
                     !.pc = IF result = "ok" THEN "subscribed"
                            ELSE IF result = "conflict" THEN "returned"
                            ELSE "raised",
                     !.subscribed = @ \/ result = "ok"]
    /\ UNCHANGED <<storeVars, mirrorVars, searchVars, analysis, pool, job,
                   enqueued, insideman, task, called>>

\* existing_items = await disco.query_items(...); an XMPPError makes the
\* handler return
ClientQueryItems(result) ==
    /\ client.pc = "subscribed"
    /\ client' = IF result = "ok"
                 THEN [client EXCEPT !.pc = "queried",
                                     !.existing_ids = DOMAIN remote]
                 ELSE [client EXCEPT !.pc = "returned"]
    /\ UNCHANGED <<storeVars, mirrorVars, searchVars, analysis, pool, job,
                   enqueued, insideman, task, called>>

\* batches = list(chop_to_batches(existing_ids)): chop_to_batches takes
\* two positional arguments (iterable, batch_size) and is called with one,
\* so the call raises TypeError.  The download, the merge and the deletion
\* of the local rooms that follow in the handler are never reached.
ClientChopToBatches ==
    /\ client.pc = "queried"
    /\ client' = [client EXCEPT !.pc = "raised"]
    /\ UNCHANGED <<storeVars, mirrorVars, searchVars, analysis, pool, job,
                   enqueued, insideman, task, called>>

\* the arguments _unwrap_item_into_state passes to update_muc_metadata
_unwrap_item_into_state(data) ==
    [NoArgs EXCEPT !.nusers = data.nusers,
                   !.is_open = data.is_open,
                   !.name = data.name,
                   !.description = data.description,
                   !.language = data.language,
                   !.anonymity_mode = data.anonymity_mode,
                   !.is_saveable = Some(TRUE)]

\* the notifications after the node has sent event to its subscriber
Notify(event) ==
    IF client.subscribed THEN Append(client.events, event)
    ELSE client.events

\* the operator of the source publishes an item
RemotePublish(a, data) ==
    /\ Len(client.events) < MaxSignals
    /\ remote' = Put(remote, a, data)
    /\ client' = [client EXCEPT
                     !.events = Notify([kind |-> "published", address |-> a,
                                        data |-> data])]
    /\ UNCHANGED <<storeVars, connected, sigq, queue, inflight, sync,
                   searchVars, analysis, pool, job, enqueued, insideman, task, called>>

\* the operator of the source retracts an item
RemoteRetract(a) ==
    /\ Len(client.events) < MaxSignals
    /\ a \in DOMAIN remote
    /\ remote' = Drop(remote, {a})
    /\ client' = [client EXCEPT
                     !.events = Notify([kind |-> "retracted", address |-> a,
                                        data |-> NoData])]
    /\ UNCHANGED <<storeVars, connected, sigq, queue, inflight, sync,
                   searchVars, analysis, pool, job, enqueued, insideman, task, called>>

\* MirrorClient._on_item_published and _on_item_retracted
ClientReceives ==
    /\ client.events # <<>>
    /\ client' = [client EXCEPT !.events = Tail(@)]
    /\ LET event == Head(client.events)
           a == event.address
           args == _unwrap_item_into_state(event.data)
           r == IF event.kind = "published"
                THEN update_muc_metadata(a, args)
                ELSE delete_all_muc_data(a)
       IN  /\ Commit(r, IF event.kind = "published"
                        THEN "update_muc_metadata"
                        ELSE "delete_all_muc_data",
                     a, None, Unchanged, Before(a))
           /\ cache' = IF event.kind = "published" THEN Drop(cache, {a})
                       ELSE cache
           /\ classified' = Classify(r, a, Unchanged)
    /\ UNCHANGED <<now, connected, queue, inflight, remote, sync,
                   searchVars, analysis, pool, job, enqueued, insideman, task, called>>

\* ---------------------------------------------------------- item enumeration
\* (muchopper/bot/scanner.py, list_items and list_items_with_rsm), as one
\* worker of the Scanner runs it for a domain inside _process_item.  In the
\* specification of the enumeration job holds
\*   pc       "idle"; "info" while query_info is awaited; "request" while a
\*            page is awaited; "items" while the unpaged query_items is
\*            awaited; "done", "raised" or "cancelled" at the end
\*   domain   the domain enumerated
\*   max_     the max of the rsm of the request awaited
\*   pages    the number of responses received to paged requests
\*   last     the number of items in the last response
\*   batches  the sizes of the batches yielded
NewEnumeration ==
    [pc |-> "idle", domain |-> "", max_ |-> None, pages |-> 0, last |-> 0,
     batches |-> <<>>]

EnumerationRuns == job.pc \in {"info", "request", "items"}

\* list_items(domain, client) is called and awaits query_info
ListItems(d) ==
    /\ job.pc = "idle"
    /\ job' = [NewEnumeration EXCEPT !.pc = "info", !.domain = d]
    /\ UNCHANGED <<storeVars, mirrorVars, searchVars, analysis, pool, client,
                   enqueued, insideman, task, called>>

\* query_info returns: with the rsm feature list_items_with_rsm sends its
\* first request, with page_size = 100; without it query_items is awaited
InfoReturns(has_rsm) ==
    /\ job.pc = "info"
    /\ job' = IF has_rsm
              THEN [job EXCEPT !.pc = "request", !.max_ = Some(page_size)]
              ELSE [job EXCEPT !.pc = "items"]
    /\ UNCHANGED <<storeVars, mirrorVars, searchVars, analysis, pool, client,
                   enqueued, insideman, task, called>>

\* the unpaged query_items returns n items, yielded as one batch
ItemsReturn(n) ==
    /\ job.pc = "items"
    /\ job' = [job EXCEPT !.pc = "done", !.last = n,
                          !.batches = Append(@, n)]
    /\ UNCHANGED <<storeVars, mirrorVars, searchVars, analysis, pool, client,
                   enqueued, insideman, task, called>>

\* list_items_with_rsm stopping at every page that is not full
after_response_short_page_ends(n, has_set) ==
    IF n < page_size THEN "done"
    ELSE IF ~has_set THEN "raised"
    ELSE "request"

\* list_items_with_rsm after a response of n items, with or without a
\* result set: `if not resp.items: break`, then
\* resp.xep0059_set.next_page(...), which raises AttributeError on None,
\* then the yield and the next request
after_response(n, has_set) ==
    IF n = 0 THEN "done"
    ELSE IF ~has_set THEN "raised"
    ELSE "request"

\* client.send(req) returns the response to a paged request
PageReturns(n, has_set) ==
    /\ job.pc = "request"
    /\ job.pages < MaxPages
    /\ LET pc == after_response(n, has_set) IN
       job' = [job EXCEPT !.pc = pc,
                          !.pages = @ + 1,
                          !.last = n,
                          !.max_ = IF pc = "request" THEN Some(page_size)
                                   ELSE @,
                          !.batches = IF pc = "request" THEN Append(@, n)
                                      ELSE @]
    /\ UNCHANGED <<storeVars, mirrorVars, searchVars, analysis, pool, client,
                   enqueued, insideman, task, called>>

\* a request of the enumeration is answered with an error: XMPPError
RequestFails ==
    /\ EnumerationRuns
    /\ job' = [job EXCEPT !.pc = "raised"]
    /\ UNCHANGED <<storeVars, mirrorVars, searchVars, analysis, pool, client,
                   enqueued, insideman, task, called>>

\* asyncio.wait_for(coro, timeout=TIMEOUT) of _handle_item cancels
\* _process_item, and the enumeration in it, when TIMEOUT has elapsed
EnumerationCancelled ==
    /\ EnumerationRuns
    /\ job' = [job EXCEPT !.pc = "cancelled"]
    /\ UNCHANGED <<storeVars, mirrorVars, searchVars, analysis, pool, client,
                   enqueued, insideman, task, called>>

\* the worker takes its next item
EnumerationOver ==
    /\ job.pc \in {"done", "raised", "cancelled"}
    /\ job' = NewEnumeration
    /\ UNCHANGED <<storeVars, mirrorVars, searchVars, analysis, pool, client,
                   enqueued, insideman, task, called>>

\* --------------------------------------------------------- Scanner._process_item
\* (muchopper/bot/scanner.py), the passes of the Scanner as one worker runs
\* them.  In the specification of the rescans job holds
\*   pc       "idle" between passes; "pass" while the worker is between
\*            items; "info" while query_info is awaited; "items" while the
\*            items of the domain are awaited
\*   items    the items of the pass not processed yet, as
\*            get_scannable_domains returned them: domain, last_seen, is_muc
\*   current  the item being processed
\* and called the time of the last successful scan of each domain
\* (scanned) and the domains whose row a drive-by require_domain has
\* touched since (touched).
NewRescan == [pc |-> "idle", items |-> <<>>, current |-> None]

NoScans == [scanned |-> EmptyTable, touched |-> {}]

ConferenceText == <<"conference", "text">>

\* _collect_and_schedule with Scanner._get_items: the rows of the domains
\* that are not delisted, in the order random.shuffle leaves them in
RescanGetItems(order) ==
    /\ job.pc = "idle"
    /\ order \in ListsOf(get_scannable_domains)
    /\ job' = [job EXCEPT
                  !.pc = "pass",
                  !.items = [i \in DOMAIN order |->
                                [domain |-> order[i],
                                 last_seen |-> domains[order[i]].last_seen,
                                 is_muc |-> ConferenceText
                                     \in domains[order[i]].identities]]]
    /\ UNCHANGED <<storeVars, mirrorVars, searchVars, analysis, pool, client,
                   enqueued, insideman, task, called>>

\* _process_item, lines 209-218: a domain that is no MUC service and was
\* seen since the threshold is skipped
SkipsItem(item) ==
    /\ ~item.is_muc
    /\ item.last_seen # None
    /\ item.last_seen[1] >= now - non_muc_rescan_delay

\* _process_item returns at line 218
ProcessItemSkips ==
    /\ job.pc = "pass"
    /\ job.items # <<>>
    /\ SkipsItem(Head(job.items))
    /\ job' = [job EXCEPT !.items = Tail(@)]
    /\ UNCHANGED <<storeVars, mirrorVars, searchVars, analysis, pool, client,
                   enqueued, insideman, task, called>>

\* _process_item sends query_info to the domain
ProcessItemProbes ==
    /\ job.pc = "pass"
    /\ job.items # <<>>
    /\ ~SkipsItem(Head(job.items))
    /\ job' = [job EXCEPT !.pc = "info", !.items = Tail(@),
                          !.current = Some(Head(job.items))]
    /\ UNCHANGED <<storeVars, mirrorVars, searchVars, analysis, pool, client,
                   enqueued, insideman, task, called>>

\* query_info raises XMPPError and _process_item returns, or it returns
\* the info of the domain and _update_domain stores it; the identities of
\* a domain are those of its row
InfoQueried(ok) ==
    /\ job.pc = "info"
    /\ LET d == job.current[1].domain IN
       IF ok
       THEN /\ Commit(update_domain(d, Some(domains[d].identities)),
                      "update_domain", d, None, Unchanged, BeforeDomains)
            /\ job' = [job EXCEPT !.pc = "items"]
            /\ called' = [called EXCEPT !.scanned = Put(@, d, now),
                                        !.touched = @ \ {d}]
       ELSE /\ job' = [job EXCEPT !.pc = "pass", !.current = None]
            /\ UNCHANGED <<domains, rooms, public, lastOp, emitted, sigq,
                           called>>
    /\ UNCHANGED <<now, cache, classified, connected, queue, inflight,
                   remote, sync, searchVars, analysis, pool, client,
                   enqueued, insideman, task>>

\* state.require_domain(address, seen=seen) for the addresses of keys, one
\* after the other
RECURSIVE require_domains(_, _, _)
require_domains(doms, keys, seen) ==
    IF keys = <<>> THEN doms
    ELSE LET key == Head(keys)
             doms0 == _require_domain(doms, key, FALSE)
         IN  require_domains(
                 [doms0 EXCEPT ![key].last_seen = Some(now + seen)],
                 Tail(keys), seen)

\* _process_other_domain, or _process_muc_domain as far as the domains
\* among the items go: the items of the domain name the domains of found,
\* and each gets require_domain(address, seen=-non_muc_rescan_delay) from
\* a domain that is no MUC service and require_domain(address) from one
\* that is
ItemsQueried(found) ==
    /\ job.pc = "items"
    /\ LET info_has_muc == ConferenceText
                               \in domains[job.current[1].domain].identities
           seen == IF info_has_muc THEN 0 ELSE 0 - non_muc_rescan_delay
           r == [domains |-> require_domains(domains, found, seen),
                 rooms |-> rooms, public |-> public, emitted |-> <<>>,
                 raised |-> FALSE]
       IN  /\ Commit(r, "require_domain", job.current[1].domain, None,
                     Unchanged, BeforeDomains)
           /\ called' = [called EXCEPT !.touched = @ \cup Range(found)]
    /\ job' = [job EXCEPT !.pc = "pass", !.current = None]
    /\ UNCHANGED <<now, cache, classified, connected, queue, inflight,
                   remote, sync, searchVars, analysis, pool, client,
                   enqueued, insideman, task>>

\* every item of the pass is processed: the next pass may start
RescanPassEnds ==
    /\ job.pc = "pass"
    /\ job.items = <<>>
    /\ job' = NewRescan
    /\ UNCHANGED <<storeVars, mirrorVars, searchVars, analysis, pool, client,
                   enqueued, insideman, task, called>>

\* ------------------------------------------------------------- the pipeline
\* Scanner workers -> analysis pool -> Watcher pool (muchopper/bot/daemon.py,
\* watcher.py, utils.py, worker_pool.py).  In the specification of the
\* pipeline pool holds
\*   next      the number of the next address a Scanner worker suggests
\*   scanner   Scanner worker -> the address it is blocked with in
\*             suggest_new_address, or 0
\*   aq, aput  the queue of the analysis pool and the Scanner workers
\*             waiting in Queue.put, in their order
\*   aw        analysis worker -> pc ("get", "run", "put" while blocked in
\*             Watcher.queue_request, "dead") and item
\*   wq, wput  the queue of the Watcher's pool and the callers waiting in
\*             Queue.put: analysis workers and the periodic producer (0)
\*   ww        Watcher worker -> pc ("get", "run") and item
\*   producer  the items _collect_and_schedule has still to enqueue
\*   fate      address -> "none", "queued" once the analysis pool has
\*             accepted it, "analysed", "dropped" by the timeout of its
\*             processor, or "refused" when its suggester was cancelled
\* An item of the Watcher's pool is the address it came from, or 0 for an
\* item of the periodic producer.
PipelineItems == 1..pipeline_items
ScannerWorkers == 1..pipeline_scanner_workers
AnalysisWorkers == 1..pipeline_analysis_workers
WatcherWorkers == 1..pipeline_watcher_workers

NewPipeline ==
    [next |-> 1,
     scanner |-> [s \in ScannerWorkers |-> 0],
     aq |-> <<>>, aput |-> <<>>,
     aw |-> [w \in AnalysisWorkers |-> [pc |-> "get", item |-> 0]],
     wq |-> <<>>, wput |-> <<>>,
     ww |-> [v \in WatcherWorkers |-> [pc |-> "get", item |-> 0]],
     producer |-> 0,
     fate |-> [i \in PipelineItems |-> "none"]]

Without(seq, x) == SelectSeq(seq, LAMBDA y : y # x)

PipelineUnchanged ==
    UNCHANGED <<storeVars, mirrorVars, searchVars, analysis, job, client,
                enqueued, insideman, task, called>>

\* Scanner._process_muc_domain: await suggester(address, privileged=True),
\* that is Queue.put on the queue of the analysis pool
SuggestNewAddress(s) ==
    /\ pool.scanner[s] = 0
    /\ pool.next <= pipeline_items
    /\ pool' = IF Len(pool.aq) < pipeline_queue_size
               THEN [pool EXCEPT !.next = @ + 1,
                                 !.aq = Append(@, pool.next),
                                 !.fate[pool.next] = "queued"]
               ELSE [pool EXCEPT !.next = @ + 1,
                                 !.scanner[s] = pool.next,
                                 !.aput = Append(@, s)]
    /\ PipelineUnchanged

\* the first putter of the analysis queue is woken and finds room
SuggestResumes ==
    /\ pool.aput # <<>>
    /\ Len(pool.aq) < pipeline_queue_size
    /\ LET s == Head(pool.aput) IN
       pool' = [pool EXCEPT !.aput = Tail(@),
                            !.aq = Append(@, pool.scanner[s]),
                            !.fate[pool.scanner[s]] = "queued",
                            !.scanner[s] = 0]
    /\ PipelineUnchanged

\* wait_for cancels the Scanner's _process_item while it waits in put
SuggestCancelled(s) ==
    /\ pool.scanner[s] # 0
    /\ pool' = [pool EXCEPT !.aput = Without(@, s),
                            !.fate[pool.scanner[s]] = "refused",
                            !.scanner[s] = 0]
    /\ PipelineUnchanged

\* a worker of the analysis pool gets an item and calls _analyse_address
AnalysisWorkerGets(w) ==
    /\ pool.aw[w].pc = "get"
    /\ pool.aq # <<>>
    /\ pool' = [pool EXCEPT !.aq = Tail(@),
                            !.aw[w] = [pc |-> "run", item |-> Head(pool.aq)]]
    /\ PipelineUnchanged

\* the worker whose processor raised ends with the exception
worker_after_failing(outcome) ==
    IF outcome = "exception" THEN "dead" ELSE "get"

\* WorkerPool._worker after the processor: a timeout and an exception are
\* logged and the worker goes back to the queue
worker_after(outcome) == "get"

\* _analyse_address ends without forwarding: it returns early, caches a
\* negative result, raises, or is cut off by the timeout of the pool
AnalysisEnds(w, outcome) ==
    /\ pool.aw[w].pc = "run"
    /\ outcome \in {"return", "exception", "timeout"}
    /\ pool' = [pool EXCEPT
                  !.aw[w] = [pc |-> worker_after(outcome), item |-> 0],
                  !.fate[pool.aw[w].item] =
                      IF outcome = "timeout" THEN "dropped" ELSE "analysed"]
    /\ PipelineUnchanged

\* _analyse_address has found a joinable or indexable room and calls
\* Watcher.queue_request: Queue.put on the queue of the Watcher's pool
QueueRequest(w) ==
    /\ pool.aw[w].pc = "run"
    /\ pool' = IF Len(pool.wq) < pipeline_queue_size
               THEN [pool EXCEPT
                        !.wq = Append(@, pool.aw[w].item),
                        !.aw[w] = [pc |-> worker_after("return"),
                                   item |-> 0],
                        !.fate[pool.aw[w].item] = "analysed"]
               ELSE [pool EXCEPT !.aw[w].pc = "put",
                                 !.wput = Append(@, w)]
    /\ PipelineUnchanged

\* the timeout of the analysis pool cancels a worker's processor while it
\* waits in queue_request
QueueRequestCancelled(w) ==
    /\ pool.aw[w].pc = "put"
    /\ pool' = [pool EXCEPT
                  !.wput = Without(@, w),
                  !.aw[w] = [pc |-> worker_after("timeout"), item |-> 0],
                  !.fate[pool.aw[w].item] = "dropped"]
    /\ PipelineUnchanged

\* _collect_and_schedule of the Watcher has n rooms to enqueue
ProducerCollects(n) ==
    /\ pool.producer = 0
    /\ 0 \notin Range(pool.wput)
    /\ pool' = [pool EXCEPT !.producer = n]
    /\ PipelineUnchanged

\* _collect_and_schedule: await self._worker_pool.enqueue(...)
ProducerEnqueues ==
    /\ pool.producer > 0
    /\ 0 \notin Range(pool.wput)
    /\ pool' = IF Len(pool.wq) < pipeline_queue_size
               THEN [pool EXCEPT !.wq = Append(@, 0), !.producer = @ - 1]
               ELSE [pool EXCEPT !.wput = Append(@, 0)]
    /\ PipelineUnchanged

\* the first putter of the Watcher's queue is woken and finds room
WatcherPutResumes ==
    /\ pool.wput # <<>>
    /\ Len(pool.wq) < pipeline_queue_size
    /\ LET w == Head(pool.wput) IN
       pool' = IF w = 0
               THEN [pool EXCEPT !.wput = Tail(@),
                                 !.wq = Append(@, 0),
                                 !.producer = @ - 1]
               ELSE [pool EXCEPT
                        !.wput = Tail(@),
                        !.wq = Append(@, pool.aw[w].item),
                        !.aw[w] = [pc |-> worker_after("return"),
                                   item |-> 0],
                        !.fate[pool.aw[w].item] = "analysed"]
    /\ PipelineUnchanged

\* a worker of the Watcher's pool gets an item and calls _handle_item
WatcherWorkerGets(v) ==
    /\ pool.ww[v].pc = "get"
    /\ pool.wq # <<>>
    /\ pool' = [pool EXCEPT !.wq = Tail(@),
                            !.ww[v] = [pc |-> "run", item |-> Head(pool.wq)]]
    /\ PipelineUnchanged

\* _handle_item returns, raises or is cut off by a timeout
WatcherEnds(v, outcome) ==
    /\ pool.ww[v].pc = "run"
    /\ pool' = [pool EXCEPT
                  !.ww[v] = [pc |-> worker_after(outcome), item |-> 0]]
    /\ PipelineUnchanged

\* --------------------------------------------------------------- InsideMan
\* (muchopper/bot/insideman.py).  insideman holds
\*   pc      "idle" at the top of the loop of _background_job, "sleep" in
\*           the waits that end _shuffle and the loop body
\*   joined  the keys of InsideMan._joined
\*   active  State._active_addresses
\*   muc     the rooms the MUCClient has joined or is joining: address ->
\*           generation of the Room object
\*   gen     the number of Room objects made so far, by address
\*   leaving the addresses of the rooms a leave task of _shuffle is leaving
\* A JID and a Room object are different Python values: a JID is the key
\* JidKey(a), the g-th Room object made for the address a is RoomObject(a, g).
JidKey(a) == <<"jid", a, 0>>
RoomObject(a, g) == <<"room", a, g>>

\* self.fixed_share = 0.4
fixed_share == [num |-> 2, den |-> 5]

\* round(x) of Python 3 for x = num / den >= 0: to the nearest integer,
\* a tie to the even one
Round(num, den) ==
    LET q == num \div den
        r == num % den
    IN  IF 2 * r < den THEN q
        ELSE IF 2 * r > den THEN q + 1
        ELSE IF q % 2 = 0 THEN q ELSE q + 1

Min2(a, b) == IF a <= b THEN a ELSE b

NewInsideMan ==
    [pc |-> "idle", joined |-> {}, active |-> {}, muc |-> EmptyTable,
     gen |-> [a \in Addresses |-> 0], leaving |-> {}]

\* State.is_active
is_active(jid) == JidKey(jid) \in insideman.active

\* State.get_all_known_inactive_mucs
get_all_known_inactive_mucs == {a \in DOMAIN rooms : ~is_active(a)}

\* State.get_joinable_mucs_with_user_count
get_joinable_mucs_with_user_count(min_users) ==
    LET is_ok(a) ==
            LET metadata == get_address_metadata(a) IN
            \/ metadata = None
            \/ /\ metadata[1].is_reachable
               /\ metadata[1].is_muc
               /\ metadata[1].is_joinable_muc
               /\ ~metadata[1].is_banned
    IN  {a \in DOMAIN rooms :
            /\ rooms[a].is_open = Some(TRUE)
            /\ rooms[a].nusers # None
            /\ rooms[a].nusers[1] >= min_users
            /\ is_ok(a)}

\* the orders rooms.sort(key=nusers, reverse=True) can leave the rows in
SortedByUserCount(S) ==
    {l \in ListsOf(S) :
        \A i, j \in DOMAIN l :
            i < j => rooms[l[i]].nusers[1] >= rooms[l[j]].nusers[1]}

\* _shuffle, lines 216-236: the rooms to be in, for the sorted list l and
\* the random_rooms that random.shuffle puts first
NextRooms(l, random_rooms) ==
    LET nfixed_rooms ==
            Min2(Round(fixed_share.num * nrooms, fixed_share.den), Len(l))
        fixed_rooms == {l[i] : i \in {i \in 1..nfixed_rooms :
                                          rooms[l[i]].nusers[1] > 2}}
        rest == {l[i] : i \in (nfixed_rooms + 1)..Len(l)}
        nrandom_rooms == nrooms - Cardinality(fixed_rooms)
    IN  [ok |-> /\ random_rooms \subseteq rest
                /\ Cardinality(random_rooms)
                     = Min2(nrandom_rooms, Cardinality(rest)),
         rooms |-> fixed_rooms \cup random_rooms]

\* MUCClient.join of the library for an address it has joined already:
\* it hands out the Room object it has ("same") or raises ValueError
JoinAgain == {"same", "raise"}

\* _shuffle, lines 244-258: the loop over to_join in the order the set is
\* iterated in.  room is rebound to the Room object that join returns, and
\* that object is the key of _joined and the value marked active.
RECURSIVE JoinLoop(_, _, _)
JoinLoop(im, order, again) ==
    IF order = <<>> THEN [im |-> im, raised |-> FALSE]
    ELSE LET a == Head(order)[2] IN
         IF a \in DOMAIN im.muc
         THEN IF again = "raise"
              THEN [im |-> im, raised |-> TRUE]
              ELSE LET room == RoomObject(a, im.muc[a]) IN
                   JoinLoop([im EXCEPT !.joined = @ \cup {room},
                                       !.active = @ \cup {room}],
                            Tail(order), again)
         ELSE LET room == RoomObject(a, im.gen[a] + 1) IN
              JoinLoop([im EXCEPT !.joined = @ \cup {room},
                                  !.active = @ \cup {room},
                                  !.muc = Put(@, a, im.gen[a] + 1),
                                  !.gen[a] = @ + 1],
                       Tail(order), again)

\* _shuffle up to its first await.  A ValueError out of join ends the job;
\* its supervisor starts it again and the loop is back at its top.
Shuffle(l, random_rooms, order, again) ==
    /\ insideman.pc = "idle"
    /\ l \in SortedByUserCount(get_joinable_mucs_with_user_count(minusers))
    /\ NextRooms(l, random_rooms).ok
    /\ LET current_rooms == insideman.joined
           next_rooms == {JidKey(a) : a \in NextRooms(l, random_rooms).rooms}
           to_join == next_rooms \ current_rooms
           to_leave == current_rooms \ next_rooms
           r == JoinLoop(insideman, order, again)
           \* lines 262-267: handler.room.leave() for the rooms of to_leave
           \* that the MUCClient is still in
           left == {a \in DOMAIN r.im.muc :
                       RoomObject(a, r.im.muc[a]) \in to_leave}
       IN  /\ order \in ListsOf(to_join)
           /\ \A k \in to_join :
                  k[2] \in DOMAIN insideman.muc
                  \/ insideman.gen[k[2]] < MaxJoins
           /\ insideman' =
                 IF r.raised THEN r.im
                 ELSE [r.im EXCEPT !.pc = "sleep", !.leaving = @ \cup left]
    /\ UNCHANGED <<storeVars, mirrorVars, searchVars, analysis, pool, job,
                   client, enqueued, task, called>>

\* asyncio.sleep(shuffle_interval) has returned, in _shuffle and in the loop
ShuffleSleepElapses ==
    /\ insideman.pc = "sleep"
    /\ insideman' = [insideman EXCEPT !.pc = "idle"]
    /\ UNCHANGED <<storeVars, mirrorVars, searchVars, analysis, pool, job,
                   client, enqueued, task, called>>

\* The InsideMan is out of the room a: a leave task of _shuffle (every key
\* of _joined that is no JID of next_rooms is left) has completed, or the
\* room has kicked it, or the join has failed.  RoomHandler._on_exit and
\* _on_failure call _stop, which fires on_stopped; nothing is connected to
\* on_stopped, so InsideMan._room_handler_stopped never runs and neither
\* _joined nor the active addresses change.
RoomExits(a) ==
    /\ a \in DOMAIN insideman.muc
    /\ insideman' = [insideman EXCEPT !.muc = Drop(@, {a}),
                                      !.leaving = @ \ {a}]
    /\ UNCHANGED <<storeVars, mirrorVars, searchVars, analysis, pool, job,
                   client, enqueued, task, called>>

\* the ways a RoomHandler stops: _on_failure(exc) calls _stop(exc, None),
\* _on_exit(muc_leave_mode) calls _stop(None, muc_leave_mode)
StopReasons ==
    {[exc |-> Some("XMPPAuthError"), leave_mode |-> None],
     [exc |-> Some("XMPPCancelError"), leave_mode |-> None],
     [exc |-> None, leave_mode |-> Some("BANNED")],
     [exc |-> None, leave_mode |-> Some("KICKED")],
     [exc |-> None, leave_mode |-> Some("NORMAL")]}

\* RoomHandler._stop(exc, leave_mode) for the room a: the handler is
\* disconnected from the signals of its room and on_stopped is fired.  No
\* code connects InsideMan._room_handler_stopped (or anything else) to
\* on_stopped, so the signal has no effect.
RoomHandlerStops(a, reason) ==
    /\ a \in DOMAIN insideman.muc
    /\ insideman' = [insideman EXCEPT !.muc = Drop(@, {a}),
                                      !.leaving = @ \ {a}]
    /\ called' = [state |-> "stopped", address |-> a, exc |-> reason.exc,
                  leave_mode |-> reason.leave_mode]
    /\ UNCHANGED <<storeVars, mirrorVars, searchVars, analysis, pool, job,
                   client, enqueued, task>>

\* One RoomHandler.  In the specification of a single handler insideman
\* holds
\*   room             the address of the handler's room
\*   queued_updates   RoomHandler._queued_updates: keyword -> value
\*   timers           the times at which the _execute_update callbacks
\*                    scheduled with call_later are due, in their order
\*   last_message_ts  RoomHandler._last_message_ts
\* and called the keyword arguments queued since the last flush, each with
\* the value given last, and the arguments taken by the last flush.
NewRoomHandler(a) ==
    [room |-> a, queued_updates |-> EmptyTable, timers |-> <<>>,
     last_message_ts |-> None]

NoUpdates == [queued |-> EmptyTable, flushed |-> EmptyTable]

\* RoomHandler._queue_update(**kwargs)
_queue_update(h, kwargs) ==
    LET merged == [k \in DOMAIN kwargs \cup DOMAIN h.queued_updates |->
                      IF k \in DOMAIN kwargs THEN kwargs[k]
                      ELSE h.queued_updates[k]]
        to_queue == h.queued_updates = EmptyTable /\ merged # EmptyTable
    IN  [h EXCEPT !.queued_updates = merged,
                  !.timers = IF to_queue THEN Append(@, now + UPDATE_DELAY)
                             ELSE @]

\* a callback of the handler that queues the one keyword argument k = v
QueueUpdate(k, v) ==
    /\ insideman' = _queue_update(insideman, Put(EmptyTable, k, v))
    /\ called' = [called EXCEPT !.queued = Put(@, k, v)]
    /\ UNCHANGED <<storeVars, mirrorVars, searchVars, analysis, pool, job,
                   client, enqueued, task>>

\* RoomHandler._on_topic_changed(_, new_topic)
OnTopicChanged(new_topic) == QueueUpdate("subject", new_topic)

\* RoomHandler._on_join with members occupants in the room
OnJoin(members) == QueueUpdate("nusers", members - 1)

\* RoomHandler._on_leave with members occupants in the room
OnLeave(members) == QueueUpdate("nusers", members - 2)

\* RoomHandler._handle_message up to the loop over the bodies, at the hour
\* now: the first message of an hour queues last_message_ts
HandleMessage ==
    /\ IF insideman.last_message_ts # Some(now)
       THEN /\ insideman' =
                   _queue_update([insideman EXCEPT
                                     !.last_message_ts = Some(now)],
                                 Put(EmptyTable, "last_message_ts", now))
            /\ called' = [called EXCEPT
                             !.queued = Put(@, "last_message_ts", now)]
       ELSE UNCHANGED <<insideman, called>>
    /\ UNCHANGED <<storeVars, mirrorVars, searchVars, analysis, pool, job,
                   client, enqueued, task>>

\* the parameters of State.update_muc_metadata
UpdateKeywords ==
    {"nusers", "is_open", "is_public", "subject", "name", "description",
     "language", "was_kicked", "is_saveable", "anonymity_mode",
     "http_logs_url", "web_chat_url"}

\* the call update_muc_metadata(jid, **updates) binds its arguments
UpdateArgsOf(updates) ==
    [NoArgs EXCEPT
        !.nusers = IF "nusers" \in DOMAIN updates
                   THEN Some(updates["nusers"]) ELSE Unchanged,
        !.subject = IF "subject" \in DOMAIN updates
                    THEN Some(updates["subject"]) ELSE Unchanged]

\* RoomHandler._execute_update, run by the event loop when a timer is due.
\* A keyword that update_muc_metadata has no parameter for makes the call
\* raise TypeError before the method runs; the event loop logs it.
ExecuteUpdate ==
    /\ insideman.timers # <<>>
    /\ Head(insideman.timers) <= now
    /\ LET updates == insideman.queued_updates
           a == insideman.room
           unbound == [domains |-> domains, rooms |-> rooms,
                       public |-> public, emitted |-> <<>>, raised |-> TRUE]
       IN  /\ insideman' = [insideman EXCEPT !.queued_updates = EmptyTable,
                                             !.timers = Tail(@)]
           /\ called' = [queued |-> EmptyTable, flushed |-> updates]
           /\ IF updates = EmptyTable
              THEN UNCHANGED <<domains, rooms, public, cache, classified,
                               lastOp, emitted, sigq>>
              ELSE IF ~(DOMAIN updates \subseteq UpdateKeywords)
              THEN /\ Commit(unbound, "update_muc_metadata", a, None,
                             Unchanged, Before(a))
                   /\ UNCHANGED <<cache, classified>>
              ELSE LET args == UpdateArgsOf(updates)
                       r == update_muc_metadata(a, args)
                   IN  /\ Commit(r, "update_muc_metadata", a, None,
                                 args.was_kicked, Before(a))
                       /\ cache' = Drop(cache, {a})
                       /\ classified' = Classify(r, a, args.is_public)
    /\ UNCHANGED <<now, connected, queue, inflight, remote, sync, search,
                   analysis, pool, job, client, enqueued, task>>

\* ------------------------------------------------------------------ Watcher
\* (muchopper/bot/watcher.py), a PeriodicBackgroundTask over the rooms

\* _collect_and_schedule up to the for loop, with Watcher._get_items
WatcherCollectItems(items) ==
    /\ job.pc = "idle"
    /\ items \in ListsOf(get_all_known_inactive_mucs)
    /\ job' = [job EXCEPT !.pc = "enqueue", !.items = items,
                          !.ctr = WaitCounter(Len(items))]
    /\ UNCHANGED <<storeVars, mirrorVars, searchVars, analysis, pool, client,
                   enqueued, insideman, task, called>>

\* the keyword arguments utils.collect_muc_metadata gives the Watcher for
\* a persistent open room that is not public
WatcherInfoIn ==
    {[NoArgs EXCEPT !.is_saveable = Some(TRUE), !.is_open = Some(TRUE),
                    !.is_public = Some(FALSE), !.nusers = Some(n)] :
        n \in {minusers, minusers + 1}}

WatcherOutcomes == {"ok", "gone", "exception", "timeout"}

\* _handle_item returns or raises for the room a: Watcher._process_item
\* has written the room's metadata ("ok"), has erased a room that exists no
\* more ("gone"), has raised or was cut off by a timeout; the finally
\* clause submits to the counter in each case
WatcherHandleItemReturns(a, outcome, info) ==
    /\ a \in job.handling
    /\ job' = [job EXCEPT !.handling = @ \ {a}, !.ctr = submit(@)]
    /\ IF outcome = "ok"
       THEN LET r == update_muc_metadata(a, info) IN
            /\ Commit(r, "update_muc_metadata", a, None, info.was_kicked,
                      Before(a))
            /\ cache' = Drop(cache, {a})
            /\ classified' = Classify(r, a, info.is_public)
            /\ UNCHANGED <<now, connected, queue, inflight, remote, sync>>
       ELSE IF outcome = "gone"
       THEN LET r == delete_all_muc_data(a) IN
            /\ Commit(r, "delete_all_muc_data", a, None, Unchanged,
                      Before(a))
            /\ classified' = Classify(r, a, Unchanged)
            /\ UNCHANGED <<now, cache, connected, queue, inflight, remote,
                           sync>>
       ELSE UNCHANGED <<storeVars, mirrorVars>>
    /\ UNCHANGED <<searchVars, analysis, pool, client, enqueued, insideman,
                   task, called>>


\* ----------------------------------------------------------------- inputs
NusersIn == {Unchanged, None} \cup {Some(n) : n \in 1..MaxUsers}
BoolIn == {Unchanged, Some(TRUE), Some(FALSE)}
TextIn == {Unchanged, Some(<<>>), Some(<<"a">>),
           Some(<<" ", "a", " ", " ", "b", "c">>)}

\* the arguments the model calls update_muc_metadata with
ClassArgs ==
    {[NoArgs EXCEPT !.nusers = n, !.is_open = o, !.is_public = p] :
        n \in {Unchanged, Some(1)}, o \in BoolIn, p \in BoolIn}

NusersArgs == {[NoArgs EXCEPT !.nusers = n] : n \in NusersIn}

KickArgs ==
    {[NoArgs EXCEPT !.was_kicked = k, !.is_open = o, !.nusers = n] :
        k \in {Some(TRUE), Some(FALSE)},
        o \in {Unchanged, Some(TRUE)},
        n \in {Unchanged, Some(1)}}

SaveArgs ==
    {[NoArgs EXCEPT !.is_saveable = s, !.is_open = Some(TRUE)] :
        s \in {Some(TRUE), Some(FALSE)}}

SubjectArgs ==
    {[NoArgs EXCEPT !.subject = s, !.is_public = p, !.is_open = o] :
        s \in TextIn \ {Unchanged},
        p \in BoolIn,
        o \in {Unchanged, Some(TRUE)}}

UpdateArgs == ClassArgs \cup KickArgs \cup SaveArgs \cup SubjectArgs

\* the metadata the Analyser and the InsideMan cache
MetadataIn ==
    {AddressMetadata(FALSE, FALSE, FALSE, FALSE, FALSE),
     AddressMetadata(TRUE, FALSE, FALSE, FALSE, FALSE),
     AddressMetadata(TRUE, TRUE, FALSE, FALSE, FALSE),
     AddressMetadata(TRUE, TRUE, FALSE, FALSE, TRUE),
     AddressMetadata(TRUE, TRUE, TRUE, FALSE, FALSE),
     AddressMetadata(TRUE, TRUE, FALSE, TRUE, FALSE),
     AddressMetadata(TRUE, TRUE, TRUE, TRUE, FALSE)}

SeenIn == {None, Some(0), Some(0 - RescanDelay)}

IdentitiesIn == {Unchanged, Some({}), Some({<<"conference", "text">>})}

\* ---------------------------------------------------------- specification

InitStore ==
    /\ now = 0
    /\ rooms = EmptyTable
    /\ public = EmptyTable
    /\ cache = EmptyTable
    /\ classified = EmptyTable
    /\ lastOp = NoResult
    /\ emitted = <<>>

\* _stream_established has not run
NoSync == [pc |-> "idle", existing_addresses |-> {}, updates |-> <<>>]

InitMirror ==
    /\ sigq = <<>>
    /\ queue = <<>>
    /\ inflight = EmptyBag
    /\ remote = EmptyTable
    /\ sync = NoSync

InitSearch == search = NoSearch

NoPool == [state |-> "none"]
NoJob == [state |-> "none"]
NoClient == [state |-> "none"]
NoInsideMan == [state |-> "none"]
NoTask == [state |-> "none"]
NoCall == [state |-> "none"]

\* the components a specification leaves out
InitAux ==
    /\ analysis = NoAnalysis
    /\ pool = NoPool
    /\ job = NoJob
    /\ client = NoClient
    /\ enqueued = EmptyTable
    /\ insideman = NoInsideMan /\ task = NoTask /\ called = NoCall

\* The Store with an empty database, no MirrorServer configured.
Init ==
    /\ InitStore /\ InitMirror /\ InitSearch /\ InitAux
    /\ domains = EmptyTable
    /\ connected = FALSE

Next ==
    \/ \E a \in StoreAddresses, args \in UpdateArgs :
           UpdateMucMetadata(a, args)
    \/ \E a \in StoreAddresses : DeleteAllMucData(a)
    \/ \E t \in Times : ExpireMucs(t)
    \/ Tick

Spec == Init /\ [][Next]_vars

\* The domain table and the rooms that refer to it. The database of an
\* earlier run holds seeded domains, some of them delisted by the operator.
OpenArgs == {[NoArgs EXCEPT !.is_open = Some(TRUE)]}

InitDomain ==
    /\ InitStore /\ InitMirror /\ InitSearch /\ InitAux
    /\ \E D \in SUBSET Domains : \E L \in SUBSET D :
           domains = [d \in D |->
                         [id_ |-> IF d = "d2" /\ "d1" \in D THEN 2 ELSE 1,
                          last_seen |-> None,
                          delisted |-> d \in L,
                          identities |-> {}]]
    /\ connected = FALSE

NextDomain ==
    \/ \E d \in Domains, seen \in SeenIn : RequireDomain(d, seen)
    \/ \E d \in Domains, ids \in IdentitiesIn : UpdateDomain(d, ids)
    \/ \E t \in Times : ExpireDomains(t)
    \/ \E a \in StoreAddresses, args \in OpenArgs :
           UpdateMucMetadata(a, args)
    \/ \E a \in StoreAddresses : DeleteAllMucData(a)
    \/ \E t \in Times : ExpireMucs(t)
    \/ Tick

SpecDomain == InitDomain /\ [][NextDomain]_vars

\* The address metadata cache next to the room table.
CacheArgs ==
    {[NoArgs EXCEPT !.is_open = o, !.is_public = p] :
        o \in {Some(TRUE), Some(FALSE)}, p \in BoolIn}

NextCache ==
    \/ \E a \in StoreAddresses, m \in MetadataIn, ttl \in 1..MaxTTL :
           CacheAddressMetadata(a, m, ttl)
    \/ \E a \in StoreAddresses : GetAddressMetadata(a)
    \/ \E a \in StoreAddresses, args \in CacheArgs :
           UpdateMucMetadata(a, args)
    \/ \E a \in StoreAddresses : DeleteAllMucData(a)
    \/ Tick

SpecCache == Init /\ [][NextCache]_vars



\* The MirrorServer beside the Store: the Store is mutated while the signal
\* handlers and the workers run, then the stream is (re-)established and
\* the reconciliation runs to its end over a database at rest.
MirrorArgs ==
    {[NoArgs EXCEPT !.nusers = Some(1), !.is_open = Some(TRUE),
                    !.is_public = Some(TRUE)],
     [NoArgs EXCEPT !.is_open = Some(FALSE)],
     [NoArgs EXCEPT !.is_public = Some(FALSE)],
     [NoArgs EXCEPT !.name = Some(<<"a">>)],
     [NoArgs EXCEPT !.is_saveable = Some(FALSE)]}

InitMirrorServer ==
    /\ InitStore /\ InitMirror /\ InitSearch /\ InitAux
    /\ domains = EmptyTable
    /\ connected = TRUE

NextMirror ==
    \/ /\ sync.pc = "idle"
       /\ \/ \E a \in StoreAddresses, args \in MirrorArgs :
                 UpdateMucMetadata(a, args)
          \/ \E a \in StoreAddresses : DeleteAllMucData(a)
          \/ ExpireMucs(now)
    \/ RunSignalHandler
    \/ WorkerGet
    \/ \E item \in BagToSet(inflight) : WorkerProcess(item)
    \/ StreamEstablishedQueryItems
    \/ StreamEstablishedCompare
    \/ StreamEstablishedEnqueueUpdate
    \/ StreamEstablishedEnqueueDelete
    \/ StreamEstablishedDone

SpecMirror == InitMirrorServer /\ [][NextMirror]_vars


\* The Spokesman over a Store at rest. The catalogue is what earlier
\* update_muc_metadata calls (is_open, is_public=True and nusers given or
\* not, all at time 0) left in the database: per address no room, an open
\* public room with or without a user count, or a closed public room.
CatalogueRowIn ==
    {[present |-> FALSE, is_open |-> FALSE, nusers |-> None],
     [present |-> TRUE, is_open |-> FALSE, nusers |-> Some(1)]}
    \cup {[present |-> TRUE, is_open |-> TRUE, nusers |-> n] :
             n \in {None} \cup {Some(n) : n \in 1..MaxUsers}}

InitCatalogue ==
    /\ InitMirror /\ InitSearch /\ InitAux
    /\ now = 0
    /\ cache = EmptyTable
    /\ lastOp = NoResult
    /\ emitted = <<>>
    /\ connected = FALSE
    /\ \E catalogue \in [Addresses -> CatalogueRowIn] :
         LET present == {a \in Addresses : catalogue[a].present}
             D == {JIDDomain(a) : a \in present}
         IN  /\ domains =
                    [d \in D |->
                        [id_ |-> IF d = "d2" /\ "d1" \in D THEN 2 ELSE 1,
                         last_seen |-> Some(0),
                         delisted |-> FALSE,
                         identities |-> {}]]
             /\ rooms =
                    [a \in present |->
                        [NewMUC(domains[JIDDomain(a)].id_) EXCEPT
                            !.last_seen = Some(0),
                            !.is_open = Some(catalogue[a].is_open),
                            !.nusers = catalogue[a].nusers,
                            !.nusers_moving_average =
                                IF catalogue[a].nusers = None THEN None
                                ELSE Some(RatOfInt(catalogue[a].nusers[1])),
                            !.moving_average_last_update = Some(0)]]
             /\ public = [a \in present |-> NewPubliclyListedMUC]
             /\ classified = [a \in present |-> TRUE]

RsmMaxIn == {None} \cup {Some(m) : m \in 0..MaxPage}

NextSearch ==
    \/ \E order_by \in {"nusers", "address"}, rsm_max \in RsmMaxIn,
          min_users \in 0..MaxUsers :
           SearchFirst(order_by, rsm_max, min_users)
    \/ SearchNext

SpecSearch == InitCatalogue /\ [][NextSearch]_vars


\* The Analyser beside the Store. The InsideMan caches an address it was
\* banned from, the Watcher writes the rooms the Analyser forwards to it.
BannedMetadata == AddressMetadata(TRUE, TRUE, FALSE, FALSE, TRUE)

AnalyserAddresses == {"r1@d1", "r2@d2"}

NextAnalyser ==
    \/ \E a \in AnalyserAddresses, privileged \in BOOLEAN, d \in DiscoveredIn :
           AnalyseAddress(a, privileged, d)
    \/ \E a \in AnalyserAddresses :
           CacheAddressMetadata(a, BannedMetadata, CACHE_TTL_BANNED)
    \/ \E a \in StoreAddresses, args \in OpenArgs :
           UpdateMucMetadata(a, args)
    \/ Tick

SpecAnalyser == Init /\ [][NextAnalyser]_vars

\* The negative cache alone: no address has a Room row.
NegativeMetadataIn ==
    {m \in MetadataIn : ~m.is_joinable_muc /\ ~m.is_indexable_muc}

NextNegativeCache ==
    \/ \E a \in Addresses, m \in NegativeMetadataIn, ttl \in 1..MaxTTL :
           CacheAddressMetadata(a, m, ttl)
    \/ \E a \in Addresses : GetAddressMetadata(a)
    \/ Tick

SpecNegativeCache == Init /\ [][NextNegativeCache]_vars

InitPool ==
    /\ InitStore /\ InitMirror /\ InitSearch
    /\ domains = EmptyTable /\ connected = FALSE
    /\ analysis = NoAnalysis /\ job = NoJob /\ client = NoClient
    /\ enqueued = EmptyTable
    /\ insideman = NoInsideMan /\ task = NoTask /\ called = NoCall
    /\ pool \in {NewPool(delay) : delay \in BOOLEAN}

NextPool ==
    \/ EnqueueNowait
    \/ Enqueue
    \/ EnqueueResumes
    \/ \E w \in 1..nworkers : ItemFutureCompletes(w)
    \/ \E w \in 1..nworkers : WorkerResumes(w)
    \/ \E w \in 1..nworkers, outcome \in Outcomes : ProcessorReturns(w, outcome)
    \/ \E w \in 1..nworkers : DelayElapses(w)
    \/ \E force \in BOOLEAN : Close(force)
    \/ WaitClosed

SpecPool == InitPool /\ [][NextPool]_vars

\* The event loop runs every task that is ready, wait_for bounds the
\* processor by the timeout, asyncio.sleep returns, and the caller of
\* wait_closed is resumed; nobody is obliged to enqueue or to close.
PoolFairness ==
    /\ \A w \in 1..nworkers : WF_vars(ItemFutureCompletes(w))
    /\ \A w \in 1..nworkers : WF_vars(WorkerResumes(w))
    /\ \A w \in 1..nworkers :
           WF_vars(\E outcome \in Outcomes : ProcessorReturns(w, outcome))
    /\ \A w \in 1..nworkers : WF_vars(DelayElapses(w))
    /\ WF_vars(WaitClosed)

SpecPoolFair == InitPool /\ [][NextPool]_vars /\ PoolFairness

\* The pool at work: callers enqueue and wait for room, the workers run the
\* processor, and close(force=False) may end it.
NextPoolAtWork ==
    \/ pool.next <= at_work_items /\ Enqueue
    \/ EnqueueResumes
    \/ \E w \in 1..nworkers : ItemFutureCompletes(w)
    \/ \E w \in 1..nworkers : WorkerResumes(w)
    \/ \E w \in 1..nworkers, outcome \in Outcomes : ProcessorReturns(w, outcome)
    \/ \E w \in 1..nworkers : DelayElapses(w)
    \/ Close(FALSE)

SpecPoolAtWork == InitPool /\ [][NextPoolAtWork]_vars

\* the steps of worker w; its position enables one of them at a time
WorkerStep(w) ==
    \/ ItemFutureCompletes(w)
    \/ WorkerResumes(w)
    \/ \E outcome \in Outcomes : ProcessorReturns(w, outcome)
    \/ DelayElapses(w)

\* The event loop runs every worker that is ready, and wait_for and
\* asyncio.sleep return.
PoolAtWorkFairness == \A w \in 1..nworkers : WF_vars(WorkerStep(w))

SpecPoolAtWorkFair == InitPool /\ [][NextPoolAtWork]_vars /\ PoolAtWorkFairness

\* The Scanner's periodic job over the domain table; domains are added
\* and time passes while it runs.
InitScanner ==
    /\ InitStore /\ InitMirror /\ InitSearch
    /\ analysis = NoAnalysis /\ pool = NoPool /\ client = NoClient
    /\ enqueued = EmptyTable
    /\ insideman = NoInsideMan /\ task = NoTask /\ called = NoCall
    /\ job = NewJob
    /\ \E D \in SUBSET Domains : \E L \in SUBSET D :
           domains = [d \in D |->
                         [id_ |-> IF d = "d2" /\ "d1" \in D THEN 2 ELSE 1,
                          last_seen |-> None,
                          delisted |-> d \in L,
                          identities |-> {}]]
    /\ connected = FALSE

NextScanner ==
    \/ \E items \in UNION {ListsOf(D) : D \in SUBSET Domains} :
           CollectItems(items)
    \/ EnqueueItem
    \/ AwaitCounter
    \/ WorkerTakesItem
    \/ \E d \in Domains, outcome \in Outcomes : HandleItemReturns(d, outcome)
    \/ PassCompletes
    \/ SleepElapses
    \/ \E d \in Domains, seen \in SeenIn : RequireDomain(d, seen)
    \/ Tick

SpecScanner == InitScanner /\ [][NextScanner]_vars

\* The event loop runs the job and the workers whenever they are ready,
\* and _handle_item returns within the timeout.
ScannerFairness ==
    /\ WF_vars(\E items \in UNION {ListsOf(D) : D \in SUBSET Domains} :
                   CollectItems(items))
    /\ WF_vars(EnqueueItem)
    /\ WF_vars(AwaitCounter)
    /\ WF_vars(WorkerTakesItem)
    /\ WF_vars(\E d \in Domains, outcome \in Outcomes :
                   HandleItemReturns(d, outcome))
    /\ WF_vars(PassCompletes)
    /\ WF_vars(SleepElapses)

SpecScannerFair == InitScanner /\ [][NextScanner]_vars /\ ScannerFairness

\* A MirrorClient with an empty database, and the node it mirrors.
SyncItemIn ==
    {[NoData EXCEPT !.is_open = Some(TRUE), !.nusers = Some(1),
                    !.name = Some(<<"a">>)],
     [NoData EXCEPT !.is_open = Some(TRUE), !.nusers = Some(1)]}

InitMirrorClient ==
    /\ InitStore /\ InitMirror /\ InitSearch
    /\ analysis = NoAnalysis /\ pool = NoPool /\ job = NoJob
    /\ enqueued = EmptyTable
    /\ insideman = NoInsideMan /\ task = NoTask /\ called = NoCall
    /\ client = NewClient
    /\ domains = EmptyTable
    /\ connected = FALSE

NextMirrorClient ==
    \/ BeforeStreamEstablished
    \/ \E result \in {"ok", "conflict", "error"} : ClientSubscribe(result)
    \/ \E result \in {"ok", "error"} : ClientQueryItems(result)
    \/ ClientChopToBatches
    \/ \E a \in AnalyserAddresses, data \in SyncItemIn : RemotePublish(a, data)
    \/ \E a \in AnalyserAddresses : RemoteRetract(a)
    \/ ClientReceives

SpecMirrorClient == InitMirrorClient /\ [][NextMirrorClient]_vars

\* The event loop runs the handler and delivers the notifications; the
\* requests of the handler are answered.
MirrorClientFairness ==
    /\ WF_vars(\E result \in {"ok", "conflict", "error"} :
                   ClientSubscribe(result))
    /\ WF_vars(\E result \in {"ok", "error"} : ClientQueryItems(result))
    /\ WF_vars(ClientChopToBatches)
    /\ WF_vars(ClientReceives)

SpecMirrorClientFair ==
    InitMirrorClient /\ [][NextMirrorClient]_vars /\ MirrorClientFairness

\* The InsideMan beside a Store that knows the open rooms of present, each
\* with one to three users.
InsideManUsersIn == {minusers - 1, minusers, minusers + 1}

InitInsideManWith(present) ==
    /\ InitMirror /\ InitSearch
    /\ analysis = NoAnalysis /\ pool = NoPool /\ client = NoClient
    /\ enqueued = EmptyTable /\ task = NoTask /\ called = NoCall
    /\ insideman = NewInsideMan
    /\ now = 0
    /\ cache = EmptyTable
    /\ lastOp = NoResult
    /\ emitted = <<>>
    /\ connected = FALSE
    /\ domains = [d \in Domains |->
                     [id_ |-> IF d = "d1" THEN 1 ELSE 2,
                      last_seen |-> Some(0),
                      delisted |-> FALSE,
                      identities |-> {}]]
    /\ \E n \in [present -> InsideManUsersIn] :
           rooms = [a \in present |->
                       [NewMUC(domains[JIDDomain(a)].id_) EXCEPT
                           !.last_seen = Some(0),
                           !.is_open = Some(TRUE),
                           !.nusers = Some(n[a]),
                           !.nusers_moving_average = Some(RatOfInt(n[a])),
                           !.moving_average_last_update = Some(0)]]
    /\ public = EmptyTable
    /\ classified = [a \in present |-> FALSE]

InitInsideMan == InitInsideManWith(Addresses) /\ job = NoJob

ShuffleSteps ==
    \E l \in SortedByUserCount(
                get_joinable_mucs_with_user_count(minusers)) :
      \E random_rooms \in SUBSET Range(l) :
        \E order \in ListsOf({JidKey(a) :
                                 a \in NextRooms(l, random_rooms).rooms}
                             \ insideman.joined),
           again \in JoinAgain :
            Shuffle(l, random_rooms, order, again)

NextInsideMan ==
    \/ ShuffleSteps
    \/ ShuffleSleepElapses
    \/ \E a \in Addresses : RoomExits(a)

SpecInsideMan == InitInsideMan /\ [][NextInsideMan]_vars

\* The enumeration of the items of a domain, against every server: a
\* response holds any number of items up to one more than asked for, with
\* or without a result set, or is an error, or never comes.
InitEnumeration ==
    /\ InitStore /\ InitMirror /\ InitSearch
    /\ analysis = NoAnalysis /\ pool = NoPool /\ client = NoClient
    /\ enqueued = EmptyTable
    /\ insideman = NoInsideMan /\ task = NoTask /\ called = NoCall
    /\ domains = EmptyTable
    /\ connected = FALSE
    /\ job = NewEnumeration

NextEnumeration ==
    \/ \E d \in Domains : ListItems(d)
    \/ \E has_rsm \in BOOLEAN : InfoReturns(has_rsm)
    \/ \E n \in 0..(page_size + 1) : ItemsReturn(n)
    \/ \E n \in 0..(page_size + 1), has_set \in BOOLEAN :
           PageReturns(n, has_set)
    \/ RequestFails
    \/ EnumerationCancelled
    \/ EnumerationOver

SpecEnumeration == InitEnumeration /\ [][NextEnumeration]_vars

\* The clock runs: the timeout of wait_for fires.  Nothing makes the
\* server answer.
EnumerationFairness ==
    /\ WF_vars(EnumerationCancelled)
    /\ WF_vars(EnumerationOver)

SpecEnumerationFair == SpecEnumeration /\ EnumerationFairness

\* The passes of the Scanner over two domains never scanned before; d1 is
\* no MUC service, d2 is one or is none.
InitRescan ==
    /\ InitStore /\ InitMirror /\ InitSearch
    /\ analysis = NoAnalysis /\ pool = NoPool /\ client = NoClient
    /\ enqueued = EmptyTable
    /\ insideman = NoInsideMan /\ task = NoTask /\ called = NoScans
    /\ job = NewRescan
    /\ \E ids \in {{}, {ConferenceText}} :
           domains = [d \in Domains |->
                         [id_ |-> IF d = "d1" THEN 1 ELSE 2,
                          last_seen |-> None,
                          delisted |-> FALSE,
                          identities |-> IF d = "d1" THEN {} ELSE ids]]
    /\ connected = FALSE

NextRescan ==
    \/ \E order \in ListsOf(Domains) : RescanGetItems(order)
    \/ ProcessItemSkips
    \/ ProcessItemProbes
    \/ \E ok \in BOOLEAN : InfoQueried(ok)
    \/ \E found \in UNION {ListsOf(D) : D \in SUBSET Domains} :
           ItemsQueried(found)
    \/ RescanPassEnds
    \/ Tick

SpecRescan == InitRescan /\ [][NextRescan]_vars

\* The pipeline from the Scanner's workers to the Watcher's pool.
InitPipeline ==
    /\ InitStore /\ InitMirror /\ InitSearch
    /\ domains = EmptyTable /\ connected = FALSE
    /\ analysis = NoAnalysis /\ job = NoJob /\ client = NoClient
    /\ enqueued = EmptyTable
    /\ insideman = NoInsideMan /\ task = NoTask /\ called = NoCall
    /\ pool = NewPipeline

\* the steps the event loop, the timeouts and the workers take by themselves
PipelineProgress ==
    \/ SuggestResumes
    \/ \E s \in ScannerWorkers : SuggestCancelled(s)
    \/ \E w \in AnalysisWorkers : AnalysisWorkerGets(w)
    \/ \E w \in AnalysisWorkers, outcome \in Outcomes \cup {"return"} :
           AnalysisEnds(w, outcome)
    \/ \E w \in AnalysisWorkers : QueueRequest(w)
    \/ \E w \in AnalysisWorkers : QueueRequestCancelled(w)
    \/ ProducerEnqueues
    \/ WatcherPutResumes
    \/ \E v \in WatcherWorkers : WatcherWorkerGets(v)
    \/ \E v \in WatcherWorkers, outcome \in Outcomes : WatcherEnds(v, outcome)

NextPipeline ==
    \/ \E s \in ScannerWorkers : SuggestNewAddress(s)
    \/ \E n \in 1..pipeline_queue_size + 1 : ProducerCollects(n)
    \/ PipelineProgress

SpecPipeline == InitPipeline /\ [][NextPipeline]_vars

\* The event loop runs every worker that is ready and the timeouts fire: a
\* worker that can get an item gets it, and its processor ends or is cut
\* off.  Nobody is obliged to suggest an address, and no putter is
\* promised the room it waits for.
PipelineFairness ==
    /\ \A w \in AnalysisWorkers :
           WF_vars(\/ AnalysisWorkerGets(w)
                   \/ \E outcome \in {"return", "exception", "timeout"} :
                         AnalysisEnds(w, outcome)
                   \/ QueueRequestCancelled(w))
    /\ \A v \in WatcherWorkers :
           WF_vars(\/ WatcherWorkerGets(v)
                   \/ \E outcome \in Outcomes : WatcherEnds(v, outcome))

SpecPipelineFair == SpecPipeline /\ PipelineFairness

\* The InsideMan and the RoomHandlers of the rooms it is in, over two rooms.
InitRoomHandler == InitInsideManWith(AnalyserAddresses) /\ job = NoJob

NextRoomHandler ==
    \/ ShuffleSteps
    \/ ShuffleSleepElapses
    \/ \E a \in AnalyserAddresses, reason \in StopReasons :
           RoomHandlerStops(a, reason)
    \/ Tick

SpecRoomHandler == InitRoomHandler /\ [][NextRoomHandler]_vars

\* One RoomHandler beside the Store, in a room that has a Room row and may
\* be publicly listed.
TopicsIn == {<<"a">>, <<"b", "c">>}

InitUpdateQueue ==
    /\ InitMirror /\ InitSearch
    /\ analysis = NoAnalysis /\ pool = NoPool /\ client = NoClient
    /\ job = NoJob /\ enqueued = EmptyTable /\ task = NoTask
    /\ called = NoUpdates
    /\ \E a \in StoreAddresses :
           /\ insideman = NewRoomHandler(a)
           /\ rooms = Put(EmptyTable, a,
                          [NewMUC(1) EXCEPT
                              !.last_seen = Some(0),
                              !.is_open = Some(TRUE),
                              !.nusers = Some(1),
                              !.nusers_moving_average = Some(RatOfInt(1)),
                              !.moving_average_last_update = Some(0)])
           /\ \E listed \in BOOLEAN :
                  /\ public = IF listed
                              THEN Put(EmptyTable, a, NewPubliclyListedMUC)
                              ELSE EmptyTable
                  /\ classified = Put(EmptyTable, a, listed)
    /\ now = 0
    /\ cache = EmptyTable
    /\ lastOp = NoResult
    /\ emitted = <<>>
    /\ connected = FALSE
    /\ domains = Put(EmptyTable, "d1",
                     [id_ |-> 1, last_seen |-> Some(0), delisted |-> FALSE,
                      identities |-> {}])

NextUpdateQueue ==
    \/ \E new_topic \in TopicsIn : OnTopicChanged(new_topic)
    \/ \E members \in 2..(MaxUsers + 1) : OnJoin(members)
    \/ \E members \in 2..(MaxUsers + 1) : OnLeave(members)
    \/ HandleMessage
    \/ ExecuteUpdate
    \/ Tick

SpecUpdateQueue == InitUpdateQueue /\ [][NextUpdateQueue]_vars

\* The Watcher's periodic pass beside the InsideMan, over one room.
InitWatcher == InitInsideManWith(StoreAddresses) /\ job = NewJob

NextWatcher ==
    \/ ShuffleSteps
    \/ ShuffleSleepElapses
    \/ \E a \in Addresses : RoomExits(a)
    \/ \E items \in UNION {ListsOf(S) : S \in SUBSET Addresses} :
           WatcherCollectItems(items)
    \/ EnqueueItem
    \/ AwaitCounter
    \/ WorkerTakesItem
    \/ \E a \in Addresses, outcome \in WatcherOutcomes,
          info \in WatcherInfoIn :
           WatcherHandleItemReturns(a, outcome, info)
    \/ PassCompletes
    \/ SleepElapses

SpecWatcher == InitWatcher /\ [][NextWatcher]_vars

\* update_muc_metadata called with at most two of its keyword arguments,
\* each of them null or false, or a value.
FrameFields ==
    [nusers |-> {None, Some(1)},
     is_open |-> {Some(FALSE), Some(TRUE)},
     is_public |-> {Some(FALSE), Some(TRUE)},
     subject |-> {None, Some(<<"a">>)},
     language |-> {None, Some(<<"e">>)},
     was_kicked |-> {Some(FALSE), Some(TRUE)}]

FrameArgs ==
    UNION {{[NoArgs EXCEPT ![f] = v, ![g] = w] :
               v \in FrameFields[f], w \in FrameFields[g]} :
           f \in DOMAIN FrameFields, g \in DOMAIN FrameFields}
    \cup {NoArgs}

NextFrame ==
    \E a \in StoreAddresses, args \in FrameArgs :
        UpdateMucMetadataCalled(a, args)

SpecFrame == Init /\ [][NextFrame]_vars

\* The user count of an open room as the Watcher reports it, pass after
\* pass: a count, or null when the room reports none.
MovingAverageArgs ==
    {[NoArgs EXCEPT !.nusers = n, !.is_open = Some(TRUE)] : n \in NusersIn}

NextNusers ==
    \/ \E a \in StoreAddresses, args \in MovingAverageArgs :
           UpdateMucMetadataCalled(a, args)
    \/ \E a \in StoreAddresses : DeleteAllMucData(a)
    \/ Tick

SpecNusers == Init /\ [][NextNusers]_vars

\* The moving average of one room under a run of reports of one user count:
\* the room starts with the average n0 and every call reports n.
AverageFirstIn == {0, MaxUsers, 10 * MaxUsers}

AverageUsersIn == 1..MaxUsers

InitAverage ==
    /\ InitMirror /\ InitSearch
    /\ analysis = NoAnalysis /\ pool = NoPool /\ client = NoClient
    /\ job = NoJob /\ insideman = NoInsideMan
    /\ enqueued = EmptyTable /\ task = NoTask
    /\ now = 0
    /\ cache = EmptyTable
    /\ lastOp = NoResult
    /\ emitted = <<>>
    /\ connected = FALSE
    /\ domains = [d \in {"d1"} |->
                     [id_ |-> 1,
                      last_seen |-> Some(0),
                      delisted |-> FALSE,
                      identities |-> {}]]
    /\ \E n0 \in AverageFirstIn, n \in AverageUsersIn :
           /\ rooms = [a \in StoreAddresses |->
                          [NewMUC(1) EXCEPT
                              !.last_seen = Some(0),
                              !.is_open = Some(TRUE),
                              !.nusers = Some(n0),
                              !.nusers_moving_average = Some(RatOfInt(n0)),
                              !.moving_average_last_update = Some(0)]]
           /\ called = [address |-> "r1@d1",
                        args |-> [NoArgs EXCEPT !.nusers = Some(n)],
                        first |-> RatOfInt(n0),
                        since |-> 0, spaced |-> 0, apart |-> 0]
    /\ public = EmptyTable
    /\ classified = [a \in StoreAddresses |-> FALSE]

NextAverage ==
    \/ \E a \in StoreAddresses, n \in AverageUsersIn : UpdateNusersCalled(a, n)
    \/ \E a \in StoreAddresses : AverageTick(a)

SpecAverage == InitAverage /\ [][NextAverage]_vars

\* Texts given to process_text: letters, whitespace and the ellipsis the
\* function itself appends, up to MaxTextLen characters.
TextChars == {"a", " ", "..."}

TextsIn == UNION {[1..k -> TextChars] : k \in 0..MaxTextLen}

InitText ==
    /\ InitStore /\ InitMirror /\ InitSearch
    /\ domains = EmptyTable
    /\ connected = FALSE
    /\ analysis = NoAnalysis /\ pool = NoPool /\ job = NoJob
    /\ client = NoClient /\ enqueued = EmptyTable
    /\ insideman = NoInsideMan /\ task = NoTask
    /\ \E text \in TextsIn, length_soft_limit \in 1..MaxSoftLimit :
           called = [state |-> "text", passes |-> 0, text |-> text,
                     length_soft_limit |-> length_soft_limit,
                     result |-> <<>>]

NextText == ProcessText \/ ProcessTextAgain

SpecText == InitText /\ [][NextText]_vars

\* A service with a background job, from its construction on.
InitTask ==
    /\ InitStore /\ InitMirror /\ InitSearch
    /\ domains = EmptyTable
    /\ connected = FALSE
    /\ analysis = NoAnalysis /\ pool = NoPool /\ job = NoJob
    /\ client = NoClient /\ enqueued = EmptyTable
    /\ insideman = NoInsideMan /\ called = NoCall
    /\ task = NewTask

NextTask ==
    \/ \E outcome \in JobOutcomes : BackgroundJobEnds(outcome)
    \/ BackgroundJobCancelled
    \/ CooldownTick
    \/ CooldownElapses
    \/ CooldownCancelled

SpecTask == InitTask /\ [][NextTask]_vars

\* the timer of asyncio.sleep fires
TaskFairness == WF_vars(CooldownTick) /\ WF_vars(CooldownElapses)

SpecTaskFair == SpecTask /\ TaskFairness

\* Scenario S1: a room is reported as public, with a name, a description
\* and a user count, to a Store that may not know the room or its domain;
\* is_open is given or left out.
ScenarioNames == {<<"a">>, <<" ", "a", " ", " ", "b", " ">>}

ScenarioArgs ==
    {[NoArgs EXCEPT !.is_public = Some(TRUE),
                    !.name = Some(name),
                    !.description = Some(description),
                    !.nusers = Some(n),
                    !.is_open = is_open] :
        name \in ScenarioNames,
        description \in {<<>>, <<"d">>},
        n \in 1..MaxUsers,
        is_open \in {Unchanged, Some(FALSE), Some(TRUE)}}

ScenarioAddresses == {"r1@d1", "r2@d2"}

NextScenario ==
    \/ \E a \in ScenarioAddresses \ DOMAIN rooms, args \in ScenarioArgs :
           UpdateMucMetadataCalled(a, args)
    \/ Tick

SpecScenario == Init /\ [][NextScenario]_vars

\* The Analyser over more addresses than the negative cache holds, none of
\* them a chat room.
NotJoinableIn ==
    {AddressMetadata(FALSE, FALSE, FALSE, FALSE, FALSE),
     AddressMetadata(TRUE, FALSE, FALSE, FALSE, FALSE)}

NextAnalyserCache ==
    \/ \E a \in Addresses, privileged \in BOOLEAN, d \in NotJoinableIn :
           AnalyseAddress(a, privileged, d)
    \/ Tick

SpecAnalyserCache == Init /\ [][NextAnalyserCache]_vars

\* Scenario S4: the stream of the MirrorServer is established over a Store
\* at rest.  Per address the database holds no room, an open or a closed
\* public room, or an open room without a PublicRoom row; the node holds
\* items for any of the addresses.  The requests of the workers are still
\* pending when the reconciliation ends.
ReconcileRowIn == {"none", "open", "closed", "unlisted"}

InitReconcile ==
    /\ InitSearch /\ InitAux
    /\ now = 0
    /\ cache = EmptyTable
    /\ lastOp = NoResult
    /\ emitted = <<>>
    /\ connected = TRUE
    /\ sigq = <<>> /\ queue = <<>> /\ inflight = EmptyBag /\ sync = NoSync
    /\ \E R \in SUBSET Addresses :
           remote = [a \in R |-> [NoData EXCEPT !.is_open = Some(TRUE)]]
    /\ \E row \in [Addresses -> ReconcileRowIn] :
         LET present == {a \in Addresses : row[a] # "none"}
             D == {JIDDomain(a) : a \in present}
         IN  /\ domains =
                    [d \in D |->
                        [id_ |-> IF d = "d2" /\ "d1" \in D THEN 2 ELSE 1,
                         last_seen |-> Some(0),
                         delisted |-> FALSE,
                         identities |-> {}]]
             /\ rooms =
                    [a \in present |->
                        [NewMUC(domains[JIDDomain(a)].id_) EXCEPT
                            !.last_seen = Some(0),
                            !.is_open = Some(row[a] # "closed")]]
             /\ public =
                    [a \in {b \in present : row[b] # "unlisted"} |->
                        NewPubliclyListedMUC]
             /\ classified = [a \in present |-> row[a] # "unlisted"]

NextReconcile ==
    \/ StreamEstablishedQueryItems
    \/ StreamEstablishedCompare
    \/ StreamEstablishedEnqueueUpdate
    \/ StreamEstablishedEnqueueDelete
    \/ StreamEstablishedDone
    \/ WorkerGet

SpecReconcile == InitReconcile /\ [][NextReconcile]_vars

\* Scenario S5: three open public rooms with the averages 30, 20 and 10 in
\* any assignment and a name each, and a client that searches them page by
\* page.
Foo == <<"f", "o", "o">>
Bar == <<"b", "a", "r">>
FooBar == Foo \o <<" ">> \o Bar

QueryNamesIn == {Foo, FooBar, Bar}

QueriesIn == {<<>>, FooBar, <<"F", "O", "O">>, <<"f", "o">>}

QueryAverages == {10, 20, 30}

InitQuery ==
    /\ InitMirror /\ InitSearch /\ InitAux
    /\ now = 0
    /\ cache = EmptyTable
    /\ lastOp = NoResult
    /\ emitted = <<>>
    /\ connected = FALSE
    /\ domains = [d \in Domains |->
                     [id_ |-> IF d = "d1" THEN 1 ELSE 2,
                      last_seen |-> Some(0),
                      delisted |-> FALSE,
                      identities |-> {}]]
    /\ \E average \in [Addresses -> QueryAverages] :
           /\ \A a, b \in Addresses : average[a] = average[b] => a = b
           /\ rooms = [a \in Addresses |->
                          [NewMUC(domains[JIDDomain(a)].id_) EXCEPT
                              !.last_seen = Some(0),
                              !.is_open = Some(TRUE),
                              !.nusers = Some(average[a]),
                              !.nusers_moving_average =
                                  Some(RatOfInt(average[a])),
                              !.moving_average_last_update = Some(0)]]
    /\ \E name \in [Addresses -> QueryNamesIn] :
           public = [a \in Addresses |->
                        [NewPubliclyListedMUC EXCEPT !.name = Some(name[a])]]
    /\ classified = [a \in Addresses |-> TRUE]

NextQuery ==
    \/ \E order_by \in {"nusers", "address"}, q \in QueriesIn :
           SearchQueryFirst(order_by, Some(2), 0, q)
    \/ SearchNext

SpecQuery == InitQuery /\ [][NextQuery]_vars

\* ------------------------------------------------------------ properties

\* what update_muc_metadata stores of a room, the timestamps aside
StoredFields(rs, pb, a) ==
    <<IF a \in DOMAIN rs
      THEN Some([rs[a] EXCEPT !.last_seen = None,
                              !.moving_average_last_update = None])
      ELSE None,
      IF a \in DOMAIN pb THEN Some(pb[a]) ELSE None>>

\* C3: a room whose latest classification is is_public=false has no
\* PublicRoom row, whatever update_muc_metadata calls without an is_public
\* value followed the classification.
C3_UnclassifiedUpdateKeepsRoomUnlisted ==
    \A a \in DOMAIN classified :
        classified[a] = FALSE => a \notin DOMAIN public

\* C5: update_muc_metadata fires on_muc_changed(address) exactly when the
\* call changed a stored field of the Room or of its PublicRoom row,
\* was_kicked and nusers_moving_average included.
C5_ChangedSignalIffFieldChanged ==
    [][\A a \in StoreAddresses : \A args \in UpdateArgs :
           UpdateMucMetadata(a, args) =>
               (<<"muc_changed", a>> \in Range(emitted')
                    <=> StoredFields(rooms', public', a)
                            # StoredFields(rooms, public, a))]_vars

\* C6: kick monotonicity. A Room row with was_kicked=true keeps
\* was_kicked=true for as long as the row exists.
C6_KickMonotone ==
    [][\A a \in DOMAIN rooms \cap DOMAIN rooms' :
           rooms[a].was_kicked => rooms'[a].was_kicked]_vars

\* an update with was_kicked=False has run on a kicked room
C6_Witness ==
    /\ lastOp.op = "update_muc_metadata"
    /\ ~lastOp.raised
    /\ lastOp.before.was_kicked
    /\ lastOp.was_kicked = Some(FALSE)
    /\ lastOp.key \in DOMAIN rooms
    /\ rooms[lastOp.key].was_kicked

\* C9: every PublicRoom row has a Room row with the same address.
C9_PublicRoomHasRoom == DOMAIN public \subseteq DOMAIN rooms

\* a Room that had a PublicRoom row has been deleted
C9_Witness ==
    /\ lastOp.op = "delete_all_muc_data"
    /\ lastOp.before.room
    /\ lastOp.before.public
    /\ lastOp.key \notin DOMAIN rooms
    /\ lastOp.key \notin DOMAIN public


\* C7: expire_domains(t) deletes no delisted Domain row; the rows it
\* deletes are not delisted and have a last_seen that is not later than t.
C7_ExpireDomainsSparesDelisted ==
    [][\A t \in Times :
           ExpireDomains(t) =>
               \A d \in DOMAIN domains \ DOMAIN domains' :
                   /\ ~domains[d].delisted
                   /\ domains[d].last_seen # None
                   /\ domains[d].last_seen[1] <= t]_vars

\* expire_domains has deleted a row and kept a delisted row that is as old
C7_Witness ==
    /\ lastOp.op = "expire_domains"
    /\ ~lastOp.raised
    /\ lastOp.before.domains # DOMAIN domains
    /\ \E d \in DOMAIN domains :
           /\ domains[d].delisted
           /\ domains[d].last_seen # None
           /\ domains[d].last_seen[1] <= lastOp.threshold[1]

\* C8: every Room row's service_domain_id is the id of a Domain row.
C8_RoomDomainExists ==
    \A a \in DOMAIN rooms :
        rooms[a].service_domain_id \in DomainIds(domains)

\* expire_domains has selected the Domain of a Room
C8_Witness ==
    /\ lastOp.op = "expire_domains"
    /\ \E a \in DOMAIN rooms : \E d \in DOMAIN domains :
           /\ rooms[a].service_domain_id = domains[d].id_
           /\ ~domains[d].delisted
           /\ domains[d].last_seen # None
           /\ domains[d].last_seen[1] <= lastOp.threshold[1]

\* C10: with a Room row for the address, get_address_metadata returns the
\* metadata of the database row and leaves the cache alone.
C10_DatabaseBeatsCache ==
    [][\A a \in DOMAIN rooms :
           GetAddressMetadata(a) =>
               /\ lastOp'.result =
                      Some(AddressMetadata(TRUE, TRUE, rooms[a].is_open[1],
                                           a \in DOMAIN public, FALSE))
               /\ cache' = cache]_vars

\* the lookup has answered from the row although a live cache entry with
\* other metadata exists
C10_Witness ==
    /\ lastOp.op = "get_address_metadata"
    /\ lastOp.key \in DOMAIN rooms
    /\ lastOp.key \in DOMAIN cache
    /\ now < cache[lastOp.key].ttl
    /\ lastOp.result # None
    /\ lastOp.result # Some(cache[lastOp.key].data)

\* ------------------------------------------------------- C1: the mirror
\* C1: once the Store mutations have stopped, the reconciliation has
\* completed and the signal handlers, the publication queue and the
\* workers have drained, the item ids of the mirror node are exactly the
\* addresses with a PublicRoom row and each payload is the row's current
\* view.
C1_MirrorConverges ==
    (/\ sync.pc = "done"
     /\ sigq = <<>>
     /\ queue = <<>>
     /\ inflight = EmptyBag)
    => /\ DOMAIN remote = DOMAIN public
       /\ \A a \in DOMAIN remote : remote[a] = _compose_muc_update(a).data

\* ------------------------------------------------ C4: deletion signals
\* C4: every step that deletes a Room row fires on_room_deleted for its
\* address, and the MirrorServer's handler (which enqueues the retraction)
\* is scheduled for it.
C4_DeletionEmitsRoomDeleted ==
    [][\A a \in Addresses :
          (a \in DOMAIN rooms /\ a \notin DOMAIN rooms')
          => /\ \E i \in DOMAIN emitted' :
                    emitted'[i] = <<"muc_deleted", a>>
             /\ \E i \in DOMAIN sigq' : sigq'[i] = <<"muc_deleted", a>>]_vars

\* ------------------------------------------------ C2: paging totality
\* the rows that match the query of the client
Matching == MinUsersFilter(base_query(FALSE), search.min_users)

\* C2: when a page reports no more rows, the pages of the iteration hold
\* every row matching the query exactly once, in both orderings.
C2_PagingVisitsEachRowOnce ==
    search.pc = "done"
    => /\ \A a \in Matching :
              Cardinality({i \in DOMAIN search.visited :
                               search.visited[i] = a}) = 1
       /\ \A i \in DOMAIN search.visited : search.visited[i] \in Matching

\* ------------------------------------------------ C11: the negative cache
\* C11: for an address without a Room row, cache_address_metadata(a, meta,
\* ttl) with a meta that is neither joinable nor indexable stores meta
\* until ttl has elapsed, so that a lookup before then returns meta; a
\* lookup finds a stored entry exactly while its ttl has not elapsed, and a
\* lookup past the ttl returns a miss and removes the entry.
C11_NegativeCacheHonoursTTL ==
    [][\A a \in Addresses \ DOMAIN rooms :
          /\ \A m \in NegativeMetadataIn, ttl \in 1..MaxTTL :
                 CacheAddressMetadata(a, m, ttl)
                 => /\ a \in DOMAIN cache'
                    /\ cache'[a] = [ttl |-> now + ttl, data |-> m]
          /\ (GetAddressMetadata(a) /\ a \in DOMAIN cache)
             => IF now < cache[a].ttl
                THEN /\ lastOp'.result = Some(cache[a].data)
                     /\ cache' = cache
                ELSE /\ lastOp'.result = None
                     /\ a \notin DOMAIN cache']_vars

\* ------------------------------------------- C12: unreachable addresses
UnreachableMetadata == AddressMetadata(FALSE, FALSE, FALSE, FALSE, FALSE)

\* C12: an analysis whose lookup finds the address unreachable, for an
\* address without a Room row, leaves the negative result cached with the
\* unreachable TTL, so that a lookup misses once that TTL has elapsed.
C12_UnreachableCachedFiveMinutes ==
    [][\A a \in AnalyserAddresses, privileged \in BOOLEAN :
          (/\ AnalyseAddress(a, privileged, UnreachableMetadata)
           /\ analysis'.looked_up
           /\ a \notin DOMAIN rooms)
          => /\ a \in DOMAIN cache'
             /\ cache'[a].data = UnreachableMetadata
             /\ cache'[a].ttl <= now + CACHE_TTL_UNREACHABLE]_vars

\* ---------------------------------------------- C13: banned addresses
\* C13: an analysis of an address that is cached as banned, within the TTL
\* of the entry, makes no lookup, forwards nothing to the Watcher and
\* leaves the database and the cache as they are, privileged or not.
C13_BannedAddressIsLeftAlone ==
    [][\* a step of AnalyseAddress: it records itself in lastOp
       (/\ now' = now
        /\ lastOp'.op = "analyse_address"
        /\ lastOp'.key \in DOMAIN cache
        /\ cache[lastOp'.key].data.is_banned
        /\ now < cache[lastOp'.key].ttl)
       => /\ analysis'.address = lastOp'.key
          /\ ~analysis'.looked_up
          /\ ~analysis'.forwarded
          /\ emitted' = <<>>
          /\ <<domains', rooms', public', cache'>>
                 = <<domains, rooms, public, cache>>]_vars

\* a privileged submission of a banned address has been analysed
C13_Witness ==
    /\ lastOp.op = "analyse_address"
    /\ analysis.address = lastOp.key
    /\ analysis.privileged
    /\ ~analysis.looked_up
    /\ analysis.address \in DOMAIN cache
    /\ cache[analysis.address].data.is_banned
    /\ now < cache[analysis.address].ttl

\* ------------------------------------------- C14: the pool's queue bound
\* the items the pool holds or has started
PoolItems(p) ==
    Range(p.queue) \cup Range(p.putters) \cup p.started
        \cup {p.workers[w].item : w \in 1..nworkers}

\* C14: the queue of a WorkerPool never holds more than max_queue_size
\* items; enqueue_nowait on a full queue raises QueueFull and leaves the
\* queue as it was; enqueue on a full queue suspends the caller, whose item
\* enters the queue only when the queue has a free slot again
C14_QueueNeverExceedsMaxQueueSize ==
    [][/\ Len(pool'.queue) <= MaxQueueSize
       /\ (EnqueueNowait /\ QueueFull(pool))
          => /\ pool'.queue = pool.queue
             /\ pool'.putters = pool.putters
       /\ (Enqueue /\ QueueFull(pool))
          => /\ pool'.queue = pool.queue
             /\ pool'.putters = Append(pool.putters, pool.next)
       /\ \A i \in Range(pool.putters) :
             i \in Range(pool'.queue) => Len(pool.queue) < MaxQueueSize]_vars

C14_Witness ==
    /\ pool # NoPool
    /\ Range(pool.queue) \cap pool.suspended # {}
    /\ Len(pool.queue) = MaxQueueSize
    /\ \E i \in 1..(pool.next - 1) : i \notin PoolItems(pool)

\* ------------------------------------------------ C15: closing the pool
ClosedGracefully(p) == p.stop /\ ~p.forced

\* C15: after close(force=False) no item that was still in the queue when
\* close was called is handed to the processor, every worker terminates
\* and wait_closed returns
C15_CloseDropsQueueAndTerminates ==
    /\ [](ClosedGracefully(pool) => pool.at_close \cap pool.started = {})
    /\ (ClosedGracefully(pool) ~> pool.joined)

\* the termination half on its own
C15_WorkersTerminate == ClosedGracefully(pool) ~> pool.joined

\* ------------------------------------------ C16: failing processor calls
\* C16: a processor call that raises or times out is logged and leaves its
\* worker running, about to sleep the delay or to take the next item; while
\* the pool is open none of its nworkers workers has terminated
C16_FailingItemsLeaveWorkersAlive ==
    [][/\ ~pool'.stop => \A w \in 1..nworkers : pool'.workers[w].pc # "done"
       /\ \A w \in 1..nworkers, outcome \in {"exception", "timeout"} :
             (ProcessorReturns(w, outcome) /\ ~pool.stop)
             => /\ pool'.errors = pool.errors + 1
                /\ pool'.workers[w].pc
                       = IF pool.delay THEN "sleeping" ELSE "get"]_vars

\* more failures than workers have been logged, the pool is open and a
\* worker is processing a further item
C16_Witness ==
    /\ pool # NoPool
    /\ pool.errors > nworkers
    /\ ~pool.stop
    /\ \A w \in 1..nworkers : pool.workers[w].pc # "done"
    /\ \E w \in 1..nworkers : pool.workers[w].pc = "processing"

\* ------------------------------------------- C17: passes of periodic jobs
AllItemsHandled(j) ==
    /\ j.pc = "wait"
    /\ j.ctr.value >= j.ctr.max

\* C17: once every item enqueued in a pass has been handled the wait of
\* the pass is released, for the empty item list too, and every pass that
\* has started completes, so that the next one starts
C17_EveryPassCompletes ==
    /\ [](AllItemsHandled(job) => job.ctr.event)
    /\ (job.pc = "enqueue" ~> job.pc = "idle")

\* the same for the passes that have at least one item
C17_NonEmptyPassCompletes ==
    /\ [](AllItemsHandled(job) /\ job.ctr.max > 0 => job.ctr.event)
    /\ ((job.pc = "enqueue" /\ job.ctr.max > 0) ~> job.pc = "idle")

\* -------------------------------------------- C18: the Scanner's sweep
\* C18: when a pass of the Scanner completes, expire_domains is called with
\* now - expire_after: no domain that is not delisted is left with a
\* last_seen at or before that threshold
C18_PassEndsWithExpirySweep ==
    [][(job.pc = "wait" /\ job'.pc = "sleep")
       => \A d \in DOMAIN domains' :
              (domains'[d].delisted # TRUE /\ domains'[d].last_seen # None)
              => domains'[d].last_seen[1] > now - expire_after]_vars

\* ------------------------------------- C19: the order of mirror requests
\* an item for the address is still in the queue or with a worker
Outstanding(a) ==
    \/ \E i \in DOMAIN queue : queue[i].address = a
    \/ \E item \in BagToSet(inflight) : item.address = a

\* C19: once no request for an address is outstanding, the node holds for
\* the address what the item enqueued last asked for: its payload after a
\* publication, no item after a retraction
C19_LastEnqueuedItemWins ==
    \A a \in DOMAIN enqueued :
        ~Outstanding(a)
        => IF enqueued[a].kind = "update"
           THEN a \in DOMAIN remote /\ remote[a] = enqueued[a].data
           ELSE a \notin DOMAIN remote

\* ------------------------------------- C20: the client's initial transfer
\* C20: an initial transfer that has the item list of the node runs to its
\* end ("complete"), and then the addresses with a PublicRoom row are the
\* item ids the node had
C20_InitialTransferMirrorsNode ==
    /\ [](client.pc = "complete" => DOMAIN public = client.existing_ids)
    /\ (client.pc = "queried" ~> client.pc = "complete")

\* ------------------------------------------------- InsideMan and Watcher

\* C21: InsideMan._joined has at most nrooms keys after any number of
\* shuffles and any sequence of room exits, at every point in time at which
\* no room is still being left.
C21_JoinedAtMostNrooms ==
    insideman.leaving = {} => Cardinality(insideman.joined) <= nrooms

\* the addresses the InsideMan is in a room of
JoinedAddresses == DOMAIN insideman.muc

\* C22: the items a pass of the Watcher collects with
\* get_all_known_inactive_mucs hold no address the InsideMan is joined to.
C22_WatcherSkipsJoinedRooms ==
    [][job.pc = "idle" /\ job'.pc = "enqueue"
       => \A i \in DOMAIN job'.items : job'.items[i] \notin JoinedAddresses
      ]_vars

\* ------------------------------------------------- the UNCHANGED sentinel

\* the columns of the Room a and of its PublicRoom that a call with the
\* arguments args may change without having been given a value for them
FrameOf(rs, pb, a, args) ==
    <<[rs[a] EXCEPT
          !.last_seen = None,
          !.moving_average_last_update = None,
          !.nusers_moving_average =
              IF args.nusers = Unchanged THEN @ ELSE None,
          !.nusers = IF args.nusers = Unchanged THEN @ ELSE None,
          !.is_open = IF args.is_open = Unchanged THEN @ ELSE None,
          !.was_kicked = IF args.was_kicked = Unchanged THEN @ ELSE FALSE],
      IF a \in DOMAIN pb /\ args.is_public = Unchanged
      THEN Some([pb[a] EXCEPT
                   !.subject = IF args.subject = Unchanged THEN @ ELSE None,
                   !.language =
                       IF args.language = Unchanged THEN @ ELSE None])
      ELSE None>>

\* the step is a call of update_muc_metadata on an existing Room and
\* PublicRoom that has committed
UpdatesExisting ==
    /\ called' # NoCall
    /\ called'.address \in DOMAIN rooms \cap DOMAIN public
    /\ UpdateMucMetadataCalled(called'.address, called'.args)
    /\ ~lastOp'.raised

\* the frame half of C23: what no argument was given for stays as stored
C23_OmittedFieldsKept ==
    [][UpdatesExisting
       => FrameOf(rooms', public', called'.address, called'.args)
            = FrameOf(rooms, public, called'.address, called'.args)]_vars

\* an explicit null or false given for a column is what the column holds
\* after the call
ExplicitStored(a, args) ==
    /\ args.nusers = None => rooms'[a].nusers = None
    /\ args.is_open = Some(FALSE) => rooms'[a].is_open = Some(FALSE)
    /\ args.is_public = Some(FALSE) => a \notin DOMAIN public'
    /\ args.subject = None /\ args.is_public # Some(FALSE)
         => a \in DOMAIN public' /\ public'[a].subject = None
    /\ args.language = None /\ args.is_public # Some(FALSE)
         => a \in DOMAIN public' /\ public'[a].language = None

\* C23: update_muc_metadata on an existing Room and PublicRoom leaves every
\* column whose argument is omitted as stored, and an explicit null or
\* false argument is not treated as an omitted one: it is stored.
C23_OmittedKeptExplicitStored ==
    [][UpdatesExisting
       => /\ FrameOf(rooms', public', called'.address, called'.args)
               = FrameOf(rooms, public, called'.address, called'.args)
          /\ ExplicitStored(called'.address, called'.args)]_vars

\* ------------------------------------------------------ the moving average

\* the step is the call of update_muc_metadata that the history holds
UpdateCalled ==
    /\ called' # NoCall
    /\ UpdateMucMetadataCalled(called'.address, called'.args)

\* nusers_moving_average of the room a in the table rs, None without a row
AverageOf(rs, a) ==
    IF a \in DOMAIN rs THEN rs[a].nusers_moving_average ELSE None

\* the average is null after a call that has committed if and only if it
\* was null before and the call has observed no user count; over the calls
\* since the row was made: if and only if none has observed a user count
NullIffNeverObserved(a, args) ==
    a \in DOMAIN rooms'
    => (AverageOf(rooms', a) = None
          <=> /\ AverageOf(rooms, a) = None
              /\ args.nusers \in {Unchanged, None})

\* the invariant half of C24
C24_NullIffNeverObserved ==
    [][UpdateCalled /\ ~lastOp'.raised
       => NullIffNeverObserved(called'.address, called'.args)]_vars

\* C24: nusers_moving_average is null if and only if no user count was
\* ever observed for the room, and a call of update_muc_metadata that
\* supplies nusers, the null nusers of the Watcher included, completes
\* without error and keeps this.
C24_NusersUpdateCompletes ==
    [][UpdateCalled /\ called'.args.nusers # Unchanged
       => /\ ~lastOp'.raised
          /\ NullIffNeverObserved(called'.address, called'.args)]_vars

\* the step is the call that the history of the run holds
NusersCalled ==
    /\ called' # called
    /\ UpdateNusersCalled(called.address, called.args.nusers[1])

\* b is at least as near to the count n as a is, and on the same side
Towards(a, b, n) ==
    LET to == RatOfInt(n) IN
    IF RatLess(a, to) THEN ~RatLess(b, a) /\ ~RatLess(to, b)
    ELSE ~RatLess(a, b) /\ ~RatLess(b, to)

\* |ma - n| <= 0.01 * |first - n|
WithinOnePercent(ma, first, n) ==
    LET to == RatOfInt(n) IN
    ~BigLess(BigTimesPow(RatDistance(first, to), 50, ma.e),
             BigTimes(BigTimesPow(RatDistance(ma, to), 50, first.e), 100, 0))

\* what the law asks of one call when `counted` is the number of calls of
\* the run that count as separated, this call included
MovingAverageLaw(counted, separated) ==
    LET a == called.address
        n == called.args.nusers[1]
        ma == rooms[a].nusers_moving_average[1]
        ma_ == rooms'[a].nusers_moving_average[1]
    IN  /\ ~lastOp'.raised
        /\ separated => Towards(ma, ma_, n)
        /\ called'.since < MA_INTERVAL => ma_ = ma
        /\ separated /\ counted = MA_UPDATES
             => WithinOnePercent(ma_, called.first, n)

C26_ProcessTextIdempotent ==
    called.state = "text"
    => /\ called.passes >= 1
            => Len(called.result) <= called.length_soft_limit
       /\ called.passes = 2 => called.result = called.text

\* a text that was cut at the soft limit has been normalised twice
C26_Witness ==
    /\ called.state = "text"
    /\ called.passes = 2
    /\ called.length_soft_limit > 1
    /\ Len(called.text) = called.length_soft_limit
    /\ called.text[Len(called.text)] = "..."
    /\ called.text[1] = "a"

\* ------------------------------------------------------- background jobs

\* the runs that have ended by an exception or a return
EndedByThemselves ==
    Cardinality({i \in DOMAIN task.ended : task.ended[i] \in JobOutcomes})

\* C27: a background job whose run ends with an exception other than a
\* cancellation, or returns, is started again after a cooldown of 1 s, any
\* number of times; a cancelled job is never started again.
C27_RestartedUnlessCancelled ==
    /\ [][/\ task'.starts > task.starts
             => /\ task.pc = "sleep" /\ task.timer = 0
                /\ task.ended[Len(task.ended)] \in JobOutcomes
                /\ task'.starts = EndedByThemselves + 1
          /\ task.pc = "job" /\ task'.pc = "sleep"
             => task'.timer = RESTART_COOLDOWN
          /\ task.pc = "returned"
             => task'.pc = "returned" /\ task'.starts = task.starts]_vars
    /\ [](task.pc = "job" /\ task.ended # <<>>
            => "cancelled" \notin Range(task.ended))
    /\ (task.pc = "sleep" ~> task.pc \in {"job", "returned"})

\* the job runs for the third time, after an exception and a return
C27_Witness ==
    /\ task.pc = "job"
    /\ task.starts = 3
    /\ Range(task.ended) = JobOutcomes

\* ------------------------------------------------------------ scenario S1

\* the step is a call of S1: the Store has no row for the room and none
\* for its domain
ScenarioCalled ==
    /\ called' # NoCall
    /\ called'.args \in ScenarioArgs
    /\ UpdateMucMetadataCalled(called'.address, called'.args)
    /\ called'.address \in ScenarioAddresses \ DOMAIN rooms
    /\ JIDDomain(called'.address) \notin DOMAIN domains

\* the rows S1 expects after the call
ScenarioRows(a, args) ==
    /\ ~lastOp'.raised
    /\ JIDDomain(a) \in DOMAIN domains'
    /\ domains'[JIDDomain(a)].last_seen = Some(now)
    /\ a \in DOMAIN rooms'
    /\ rooms'[a].nusers = args.nusers
    /\ rooms'[a].nusers_moving_average = Some(RatOfInt(args.nusers[1]))
    /\ a \in DOMAIN public'
    /\ public'[a].name
         = Some(process_text(args.name[1],
                             IF args.description = Some(<<>>)
                             THEN max_description_length
                             ELSE max_name_length))

\* C28 as stated (scenario S1): for every address a with no Room row and
\* no Domain row for its domain, update_muc_metadata(a, is_public=true,
\* name, description, nusers=n) commits and leaves one Domain row for a's
\* domain with last_seen = now, one Room row with nusers = n and
\* nusers_moving_average = n, and one PublicRoom row with the normalised
\* name.
C28_ScenarioS1 ==
    [][ScenarioCalled /\ called'.args.is_open = Unchanged
       => ScenarioRows(called'.address, called'.args)]_vars

\* C28 with is_open given in the call
C28_ScenarioS1WithIsOpen ==
    [][ScenarioCalled /\ called'.args.is_open # Unchanged
       => ScenarioRows(called'.address, called'.args)]_vars

\* the rows of S1 are there, made by a call that has named is_open and a
\* name with blanks to normalise
C28_Witness ==
    /\ called # NoCall
    /\ called.args \in ScenarioArgs
    /\ called.args.is_open = Some(TRUE)
    /\ called.args.name = Some(<<" ", "a", " ", " ", "b", " ">>)
    /\ lastOp.op = "update_muc_metadata" /\ ~lastOp.raised
    /\ ~lastOp.before.room /\ lastOp.before.domains = {}
    /\ called.address \in DOMAIN public

\* ------------------------------------------------------------ scenario S3

\* what disco_info_to_address_metadata gives for service info without a
\* conference/text identity or without the muc feature
NonMucMetadata == AddressMetadata(TRUE, FALSE, FALSE, FALSE, FALSE)

\* C29 (scenario S3): when the Analyser processes an address whose service
\* info shows no conference/text identity or no muc feature, it leaves a
\* cache entry with is_muc = false that expires CACHE_TTL_NON_MUC (3600 s)
\* later, no Room row exists for the address afterwards, and the address is
\* not forwarded to the Watcher.
C29_NonMucCachedOneHour ==
    [][\A a \in Addresses, privileged \in BOOLEAN :
          (/\ AnalyseAddress(a, privileged, NonMucMetadata)
           /\ analysis'.looked_up)
          => /\ a \in DOMAIN cache'
             /\ cache'[a] = [ttl |-> now + CACHE_TTL_NON_MUC,
                             data |-> NonMucMetadata]
             /\ a \notin DOMAIN rooms'
             /\ ~analysis'.forwarded]_vars

\* the parts of C29 that do not depend on the insertion into the cache
C29_NonMucNoRoomNotForwarded ==
    [][\A a \in Addresses, privileged \in BOOLEAN :
          (/\ AnalyseAddress(a, privileged, NonMucMetadata)
           /\ analysis'.looked_up)
          => /\ a \notin DOMAIN rooms'
             /\ ~analysis'.forwarded
             /\ ~analysis'.raised
                  => /\ a \in DOMAIN cache'
                     /\ cache'[a] = [ttl |-> now + CACHE_TTL_NON_MUC,
                                     data |-> NonMucMetadata]]_vars

\* ------------------------------------------------------------ scenario S4

\* the number of items of the kind for the address a that the pool holds,
\* in its queue or with a worker
RECURSIVE CopiesOf(_, _)
CopiesOf(B, S) ==
    IF S = {} THEN 0
    ELSE LET item == CHOOSE x \in S : TRUE
         IN  CopiesIn(item, B) + CopiesOf(B, S \ {item})

Held(kind, a) ==
    Cardinality({i \in DOMAIN queue :
                    queue[i].kind = kind /\ queue[i].address = a})
    + CopiesOf(inflight, {item \in BagToSet(inflight) :
                             item.kind = kind /\ item.address = a})

\* what S4 expects of the reconciliation that has ended, for the local
\* addresses L and the item ids R
Reconciled(L, R) ==
    sync.pc = "done"
    => \A a \in Addresses :
           /\ Held("update", a) = IF a \in L \ R THEN 1 ELSE 0
           /\ Held("delete", a) = IF a \in R \ L THEN 1 ELSE 0

ScenarioS5Row(n) ==
    CHOOSE a \in Addresses :
        rooms[a].nusers_moving_average = Some(RatOfInt(n))

\* the rows of scenario S5: (30, "foo"), (20, "foo bar"), (10, "bar")
ScenarioS5 ==
    /\ public[ScenarioS5Row(30)].name = Some(Foo)
    /\ public[ScenarioS5Row(20)].name = Some(FooBar)
    /\ public[ScenarioS5Row(10)].name = Some(Bar)

\* the client has the replies of S5: (30), (20) with rsm.last = 20 and more
\* rows, then (10) and no more rows
ScenarioS5Paged ==
    LET all == <<ScenarioS5Row(30), ScenarioS5Row(20), ScenarioS5Row(10)>>
    IN  /\ search.pc \in {"paging", "done"}
        /\ search.pc = "paging" =>
               /\ search.visited = Prefix(all, 2)
               /\ search.after = Some(RatOfInt(20))
        /\ search.pc = "done" =>
               /\ search.visited = all
               /\ ~search.more

\* C31 as stated: on the rows of S5 the search for "foo bar" ordered by
\* nusers with max = 2 returns (30), (20) with rsm.last = 20, and the
\* request after 20 returns (10) and no more rows.
C31_ScenarioS5 ==
    (/\ ScenarioS5
     /\ search.pc # "idle"
     /\ search.order_by = "nusers"
     /\ search.rsm_max = Some(2)
     /\ search.q = FooBar)
        => ScenarioS5Paged

\* C31: on the rows of S5 the search for "foo bar" ordered by nusers with
\* max = 2 returns the one row that matches both keywords, (20), with
\* rsm.last = 20 and no more rows; the same request without a query
\* returns (30), (20) with rsm.last = 20, and the request after 20 returns
\* (10) and no more rows.
C31_ScenarioS5EveryKeyword ==
    (/\ ScenarioS5
     /\ search.pc # "idle"
     /\ search.order_by = "nusers"
     /\ search.rsm_max = Some(2))
        => /\ search.q = FooBar =>
                  /\ search.pc = "done"
                  /\ search.visited = <<ScenarioS5Row(20)>>
                  /\ search.after = Some(RatOfInt(20))
                  /\ ~search.more
           /\ search.q = <<>> => ScenarioS5Paged

\* the search for "foo bar" on the rows of S5 has replied
C31_Witness ==
    /\ ScenarioS5
    /\ search.pc = "done"
    /\ search.order_by = "nusers"
    /\ search.rsm_max = Some(2)
    /\ search.q = FooBar
    /\ search.visited = <<ScenarioS5Row(20)>>

\* the keys of InsideMan._joined that are Room objects of the address a
JoinedRooms(a) == {room \in insideman.joined : room[2] = a}

\* C32: when the RoomHandler of a room stops, the room leaves the joined
\* set; after a ban or an authentication error the address is cached as
\* banned for CACHE_TTL_BANNED and has no Room row; after a kick the Room
\* row has was_kicked set; after another failure to join the address is
\* cached as unreachable for CACHE_TTL_UNREACHABLE; after a plain exit
\* nothing else changes.
C32_RoomHandlerStopped ==
    [][\A a \in AnalyserAddresses, reason \in StopReasons :
          RoomHandlerStops(a, reason) =>
              /\ insideman'.joined = insideman.joined \ JoinedRooms(a)
              /\ IF \/ reason.exc = Some("XMPPAuthError")
                    \/ reason.leave_mode = Some("BANNED")
                 THEN /\ a \in DOMAIN cache'
                      /\ cache'[a] = [ttl |-> now + CACHE_TTL_BANNED,
                                      data |-> BannedMetadata]
                      /\ a \notin DOMAIN rooms'
                 ELSE IF reason.leave_mode = Some("KICKED")
                 THEN /\ a \in DOMAIN rooms' => rooms'[a].was_kicked
                      /\ cache' = cache
                 ELSE IF reason.exc # None
                 THEN /\ a \in DOMAIN cache'
                      /\ cache'[a] = [ttl |-> now + CACHE_TTL_UNREACHABLE,
                                      data |-> UnreachableMetadata]
                      /\ rooms' = rooms
                 ELSE /\ cache' = cache
                      /\ rooms' = rooms]_vars

\* C32, the plain exit alone: it changes neither the database nor the cache
C32_PlainExitChangesNoData ==
    [][\A a \in AnalyserAddresses :
          RoomHandlerStops(a, [exc |-> None, leave_mode |-> Some("NORMAL")])
              => /\ cache' = cache
                 /\ rooms' = rooms
                 /\ public' = public]_vars

C33_MergedUnderOneTimer ==
    /\ [][ExecuteUpdate => called'.flushed = called.queued]_vars
    /\ [](insideman.queued_updates = called.queued)
    /\ [](Len(insideman.timers) <= 1)
    /\ [](called.queued # EmptyTable => Len(insideman.timers) = 1)

\* C33, the delivery of the updates that hold no last_message_ts
C33_DeliveredUnlessMessageSeen ==
    [][(/\ ExecuteUpdate
        /\ called.queued # EmptyTable
        /\ "last_message_ts" \notin DOMAIN called.queued)
           => /\ lastOp'.op = "update_muc_metadata"
              /\ ~lastOp'.raised
              /\ "nusers" \in DOMAIN called.queued =>
                     rooms'[insideman.room].nusers
                         = Some(called.queued["nusers"])]_vars

C35_NotProbedWithinRescanDelay ==
    [][ProcessItemProbes =>
          LET item == Head(job.items) IN
          (~item.is_muc /\ item.domain \in DOMAIN called.scanned)
              => now >= called.scanned[item.domain]
                            + non_muc_rescan_delay]_vars

\* C35 for the domains no require_domain has named since their scan
C35_NotProbedUnlessTouched ==
    [][ProcessItemProbes =>
          LET item == Head(job.items) IN
          (/\ ~item.is_muc
           /\ item.domain \in DOMAIN called.scanned
           /\ item.domain \notin called.touched)
              => now >= called.scanned[item.domain]
                            + non_muc_rescan_delay]_vars

\* C36: cache_address_metadata for an address the cache does not hold, on
\* a cache of cache_maxsize entries, succeeds: the entries whose ttl has
\* elapsed are removed, the address is entered with the expiry now + ttl,
\* and the cache holds no more than cache_maxsize entries.
C36_InsertIntoFullCache ==
    [][\A a \in Addresses, m \in NegativeMetadataIn, ttl \in 1..MaxTTL :
          (/\ CacheAddressMetadata(a, m, ttl)
           /\ a \notin DOMAIN cache
           /\ Cardinality(DOMAIN cache) = cache_maxsize)
              => /\ ~lastOp'.raised
                 /\ a \in DOMAIN cache'
                 /\ cache'[a] = [ttl |-> now + ttl, data |-> m]
                 /\ \A k \in DOMAIN cache :
                        cache[k].ttl <= now => k \notin DOMAIN cache'
                 /\ Cardinality(DOMAIN cache') <= cache_maxsize]_vars

\* C36, the bound alone: the cache never holds more than cache_maxsize
\* entries
C36_CacheWithinMaxsize == Cardinality(DOMAIN cache) <= cache_maxsize

\* get_address_metadata(a) would report the address as banned
ReportedBanned(a) ==
    /\ get_address_metadata(a) # None
    /\ get_address_metadata(a)[1].is_banned

\* C37: an address that is cached as banned has no Room row and is
\* reported as banned by get_address_metadata until CACHE_TTL_BANNED has
\* elapsed, whatever update_muc_metadata calls arrive in between.
C37_BannedUntilTTLElapsed ==
    [][\A a \in AnalyserAddresses :
          /\ CacheAddressMetadata(a, BannedMetadata, CACHE_TTL_BANNED)
                 => /\ a \notin DOMAIN rooms'
                    /\ ReportedBanned(a)'
          /\ (/\ ReportedBanned(a)
              /\ now' < cache[a].ttl)
                 => /\ a \notin DOMAIN rooms'
                    /\ ReportedBanned(a)']_vars

\* C37 for the steps that are no update_muc_metadata call
C37_BannedUnlessUpdated ==
    [][\A a \in AnalyserAddresses :
          /\ CacheAddressMetadata(a, BannedMetadata, CACHE_TTL_BANNED)
                 => /\ a \notin DOMAIN rooms'
                    /\ ReportedBanned(a)'
          /\ (/\ ReportedBanned(a)
              /\ now' < cache[a].ttl
              /\ \A args \in OpenArgs : ~UpdateMucMetadata(a, args))
                 => /\ a \notin DOMAIN rooms'
                    /\ ReportedBanned(a)']_vars

\* work is held somewhere in the pipeline
PipelineBusy ==
    \/ pool.aq # <<>> \/ pool.aput # <<>>
    \/ pool.wq # <<>> \/ pool.wput # <<>>
    \/ pool.producer > 0
    \/ \E w \in AnalysisWorkers : pool.aw[w].pc \in {"run", "put"}
    \/ \E v \in WatcherWorkers : pool.ww[v].pc = "run"

\* C38: the pipeline from the Scanner's workers through the analysis pool
\* to the Watcher's pool, which the Watcher's periodic producer feeds as
\* well, never deadlocks: while it holds work a step can be taken; and every
\* address the analysis pool has accepted is eventually analysed or
\* dropped by the timeout.
C38_PipelineNeverDeadlocks ==
    /\ [](PipelineBusy => ENABLED PipelineProgress)
    /\ \A i \in PipelineItems :
           (pool.fate[i] = "queued")
               ~> (pool.fate[i] \in {"analysed", "dropped"})

\* both queues are full, an analysis worker and the producer wait for room
\* in the Watcher's queue and a Scanner worker waits for room in the
\* analysis queue
C38_Witness ==
    /\ Len(pool.aq) = pipeline_queue_size
    /\ Len(pool.wq) = pipeline_queue_size
    /\ pool.aput # <<>>
    /\ 0 \in Range(pool.wput)
    /\ \E w \in AnalysisWorkers : pool.aw[w].pc = "put"
    /\ \A v \in WatcherWorkers : pool.ww[v].pc = "run"

\* ------------------------------------- C39: producers and a closed pool
\* the pool is closed, every worker has returned and the queue is full:
\* no task is left that takes an item from the queue
ClosedAndFull(p) == p.stop /\ AllWorkersDone(p) /\ QueueFull(p)

\* C39: no producer stays suspended forever because of a closed pool: a
\* caller that waits in enqueue() on a full queue is resumed after close(),
\* and an enqueue issued after close does not block.  Stated on the states
\* nothing leads out of: once the pool is closed, its workers have returned
\* and its queue is full, no caller is suspended in enqueue().
C39_NoProducerSuspendedByClosedPool ==
    ClosedAndFull(pool) => pool.putters = <<>>

\* what the pool does instead: from there on the queue stays as it is, no
\* suspended caller is resumed, and a further enqueue suspends its caller
C39_ClosedPoolKeepsProducersSuspended ==
    [][ClosedAndFull(pool)
          => /\ ClosedAndFull(pool')
             /\ pool'.queue = pool.queue
             /\ Range(pool.putters) \subseteq Range(pool'.putters)
             /\ Enqueue => pool.next \in Range(pool'.putters)
             /\ ~EnqueueResumes]_vars

\* a caller was suspended before close and another one after it, and both
\* are still suspended with every worker gone
C39_Witness ==
    /\ pool # NoPool
    /\ ClosedAndFull(pool)
    /\ Len(pool.putters) >= 2
    /\ pool.joined

\* ------------------------------------------ C40: the items of the pool
\* the items the processor is running on
InFlight(p) ==
    {p.workers[w].item : w \in {x \in 1..nworkers :
                                    p.workers[x].pc = "processing"}}

\* the number of processor invocations in flight
Invocations(p) ==
    Cardinality({w \in 1..nworkers : p.workers[w].pc = "processing"})

\* C40: every item the queue has accepted is handed to the processor at
\* most once, no more than nworkers processor invocations are in flight,
\* each on an item of its own, and while the pool is not closed every item
\* in the queue is eventually handed to the processor.
C40_EachItemProcessedOnce ==
    /\ [][\A w \in 1..nworkers :
             (/\ pool.workers[w].pc # "processing"
              /\ pool'.workers[w].pc = "processing")
                 => /\ pool'.workers[w].item \notin pool.started
                    /\ pool'.workers[w].item \notin Range(pool'.queue)
                    /\ pool'.workers[w].item \notin InFlight(pool)]_vars
    /\ [](/\ Invocations(pool) <= nworkers
          /\ Cardinality(InFlight(pool)) = Invocations(pool))
    /\ \A i \in 1..at_work_items :
           (i \in Range(pool.queue)) ~> (i \in pool.started \/ pool.stop)

\* every worker runs the processor, each on an item of its own, while a
\* further item waits in the queue of the open pool
C40_Witness ==
    /\ pool # NoPool
    /\ ~pool.stop
    /\ Invocations(pool) = nworkers
    /\ Cardinality(InFlight(pool)) = nworkers
    /\ pool.queue # <<>>

====
